---- MODULE Spec2Model ----
(***************************************************************************)
(* State-machine model of gobble's event pipeline: one feed worker that     *)
(* hands vehicle updates to event.process_event, the trip-state store of    *)
(* trip_state.py with its state files, the hourly service-date cache of     *)
(* util.py, the current GTFS archive of gtfs.py and the rows appended by    *)
(* disk.write_event.                                                        *)
(*                                                                          *)
(* Timestamps are instants counted in whole hours (local time); hour h of   *)
(* day d is the integer 24*d + h.  A service date is a day number.          *)
(***************************************************************************)
EXTENDS Integers, Sequences, FiniteSets, TLC

(***************************************************************************)
(* Bounds of the model.                                                     *)
(***************************************************************************)
\* the wall clock starts at StartNow and runs up to MaxNow
MaxNow == 27
\* updated_at values carried by the updates lie in MinTime..MaxTime
MaxTime == 21
\* stop sequences carried by the updates lie in 1..MaxSeq
MaxSeq == 2
\* largest number of updates in one SSE reset payload
MaxBatch == 2

\* 02:00 of day 1 and 20:00 of day 0
StartNow == 24 + 2
MinTime == 24 - 4

(***************************************************************************)
(* constants.py: the agency catalog (a slice of it).                        *)
(***************************************************************************)
ROUTES_RAPID == {"Red"}
ROUTES_CR == {"CR-Fairmount"}
BUS_STOPS == [route_id \in {"1"} |-> {"110"}]
ROUTES_BUS == DOMAIN BUS_STOPS

\* a bus route of the feed that has no BUS_STOPS entry
UnlistedRoutes == {"747"}
FeedRoutes == ROUTES_RAPID \cup ROUTES_CR \cup ROUTES_BUS \cup UnlistedRoutes
\* the route sets handed to the workers; one worker is followed
WorkerRoutes == {ROUTES_RAPID, ROUTES_CR, ROUTES_BUS, UnlistedRoutes}
TripIds == {"trip_123"}
StopIds == {"110", "99"}
\* relationships.stop.data is null
None == "None"
Statuses == {"IN_TRANSIT_TO", "STOPPED_AT", "INCOMING_AT"}
Times == MinTime..MaxTime
Seqs == 1..MaxSeq
\* the downstream call that raises: read_gtfs, or enrich_event / write_event
Faults == {"none", "archive", "enrich_or_write"}

\* BUS_STOPS.get(route_id, {})
BusStopsGet(route_id) ==
    IF route_id \in DOMAIN BUS_STOPS THEN BUS_STOPS[route_id] ELSE {}

\* an event type map that hands the status on for INCOMING_AT
EVENT_TYPE_MAP_incoming ==
    [current_status \in Statuses |->
        IF current_status = "IN_TRANSIT_TO" THEN "DEP"
        ELSE IF current_status = "STOPPED_AT" THEN "ARR" ELSE current_status]

EVENT_TYPE_MAP ==
    [current_status \in Statuses |->
        IF current_status = "IN_TRANSIT_TO" THEN "DEP" ELSE "ARR"]

\* the raw vehicle updates a feed can deliver for a route (no carriages);
\* process_event reads nothing else of an update whose stop is null
UpdatesWithStop(route_id) ==
    [current_status : Statuses,
     current_stop_sequence : Seqs,
     direction_id : {0},
     route_id : {route_id},
     stop_id : StopIds,
     trip_id : TripIds,
     label : {"1234"},
     occupancy_status : {None},
     updated_at : Times]

UpdatesWithoutStop(route_id) ==
    [current_status : {"IN_TRANSIT_TO"},
     current_stop_sequence : {1},
     direction_id : {0},
     route_id : {route_id},
     stop_id : {None},
     trip_id : TripIds,
     label : {"1234"},
     occupancy_status : {None},
     updated_at : {MinTime}]

Updates == UNION {UpdatesWithStop(r) \cup UpdatesWithoutStop(r) : r \in FeedRoutes}

(***************************************************************************)
(* util.py                                                                  *)
(***************************************************************************)
MAX_TRIP_AGE == 5
NoHour == -1
NoDate == -1

HourOf(ts) == ts % 24
DayOf(ts) == ts \div 24

\* a service day that begins after 03:59
service_date_after_three(ts) ==
    IF HourOf(ts) > 3 /\ HourOf(ts) <= 23 THEN DayOf(ts) ELSE DayOf(ts - 24)

\* util.service_date
service_date(ts) ==
    IF HourOf(ts) >= 3 /\ HourOf(ts) <= 23 THEN DayOf(ts) ELSE DayOf(ts - 24)

VARIABLES
    routes,               \* the route set of the worker (argument of client_thread)
    now,                  \* wall clock
    cache_hour,           \* util._cache_hour
    service_date_cache,   \* util._service_date_cache
    route_states,         \* TripsStateManager.route_states: route_id -> RouteTripsState
    files,                \* data/trip_states/{route_id}.json
    current_gtfs_archive, \* gtfs.current_gtfs_archive (its service_date) or NoDate
    latest_row,           \* (route_id, trip_id) -> the row disk.write_event appended last
    pending,              \* updates of the current reset payload not yet taken
    pc,                   \* the worker's position in its loop: "get" or "process"
    event,                \* the update the worker holds
    last,                 \* what the process_event call just finished did
    call,                 \* the latest call made on the trip-state store, and its outcome
    held,                 \* the dict the latest get_trip_state returned to its caller
    previous_positions,   \* GtfsRtClient._previous_positions: trip_id -> event
    feed,                 \* the entities of the latest feed fetched, <<>> before the first
    fetched,              \* whether the latest fetch_vehicle_positions returned a feed
    yielded,              \* the events poll_events yielded during the latest poll
    evicted,              \* the trips once in _previous_positions and removed since
    back,                 \* the trips of evicted that the latest poll cached again
    polls,                \* number of polls made, modulo 2
    subscribers,          \* SharedGtfsRtFetcher.subscribers: the list of queues
    broadcast,            \* the latest event the fetcher broadcast, and whom it was dropped for
    bus_list,             \* main: list(ROUTES_BUS) once the loop has listed it, <<>> before
    workers,              \* main: the route set of every worker thread started, in order
    dispatch,             \* the latest broadcast update and the workers that processed it
    data_dir,             \* disk: shard path -> the lines of its events.csv; no key, no file
    writers,              \* disk: thread -> where it is inside write_event
    disk_log,             \* disk: shard path -> the events of the write_event calls, in call order
    overlap,              \* disk: a write_event call began while another was under way
    write_gtfs_archive_lock, \* gtfs: the thread that holds the lock, or "free"
    loaders,              \* gtfs: thread -> where it is inside the archive functions
    read_gtfs_runs,       \* gtfs: service date -> number of read_gtfs calls begun for it
    read_failures,        \* gtfs: number of read_gtfs calls that raised
    sse_thread,           \* gobble: where client_thread_sse is, its client and what was raised
    rt_threads,           \* gobble: thread -> where a GTFS-RT thread is
    date_call,            \* util: the latest call of a service date function and its result
    gtfs_call,            \* gtfs: the latest call of a schedule or archive function and its result
    vehicle_seq           \* feed: (route_id, trip_id) -> the stop sequence of the trip's latest update

\* the variables of the trip-state store's callers
store_vars == <<call, held>>

\* the variables of a GtfsRtClient
poll_vars == <<previous_positions, feed, fetched, yielded, evicted, back, polls>>

\* the variables of a SharedGtfsRtFetcher
fetcher_vars == <<subscribers, broadcast>>

\* the variables the feed worker's loop leaves alone
\* the variables of main
main_vars == <<bus_list, workers, dispatch>>

\* the variables of disk.write_event and of its callers
disk_vars == <<data_dir, writers, disk_log, overlap>>

\* the variables of the remaining modules
\* the variables of the archive loader of gtfs.py
load_vars == <<write_gtfs_archive_lock, loaders, read_gtfs_runs, read_failures>>

\* the variables of the feed threads of gobble.py
thread_vars == <<sse_thread, rt_threads>>

\* the variable of the callers of util.py
date_vars == <<date_call>>

\* the variable of the callers of the schedule and archive functions of gtfs.py
gtfs_vars == <<gtfs_call>>

\* the variable of a feed that reports each trip's stops in order
order_vars == <<vehicle_seq>>

more_vars == <<disk_vars, load_vars, thread_vars, date_vars, gtfs_vars, order_vars>>

aux_vars == <<store_vars, poll_vars, fetcher_vars, main_vars, more_vars>>

\* the variables of the feed worker's loop
worker_vars == <<routes, now, cache_hour, service_date_cache, route_states, files,
                 current_gtfs_archive, latest_row, pending, pc, event, last>>

\* what write_event leaves alone
outside_disk_vars == <<worker_vars, store_vars, poll_vars, fetcher_vars, main_vars, load_vars,
                       thread_vars, date_vars, gtfs_vars, order_vars>>

\* what the archive loader leaves alone, the current archive and the clock apart
outside_load_vars == <<routes, cache_hour, service_date_cache, route_states, files,
                       latest_row, pending, pc, event, last,
                       store_vars, poll_vars, fetcher_vars, main_vars, disk_vars,
                       thread_vars, date_vars, gtfs_vars, order_vars>>

\* what the feed threads leave alone
outside_thread_vars == <<worker_vars, store_vars, poll_vars, fetcher_vars, main_vars,
                         disk_vars, load_vars, date_vars, gtfs_vars, order_vars>>

\* what a call of util.service_date leaves alone
outside_date_vars == <<worker_vars, store_vars, poll_vars, fetcher_vars, main_vars,
                       disk_vars, load_vars, thread_vars, gtfs_vars, order_vars>>

\* what a call of a schedule or archive function leaves alone
outside_gtfs_vars == <<worker_vars, store_vars, poll_vars, fetcher_vars, main_vars,
                       disk_vars, load_vars, thread_vars, date_vars, order_vars>>

vars == <<routes, now, cache_hour, service_date_cache, route_states, files,
          current_gtfs_archive, latest_row, pending, pc, event, last, aux_vars>>

\* util.get_current_service_date: the value returned
CurrentServiceDate ==
    IF HourOf(now) # cache_hour THEN service_date(now) ELSE service_date_cache

\* util.get_current_service_date: the cache after the call
CacheAfterCall ==
    /\ cache_hour' = HourOf(now)
    /\ service_date_cache' = CurrentServiceDate

(***************************************************************************)
(* trip_state.py                                                            *)
(***************************************************************************)
\* a dict restricted to the keys in keep
Restrict(f, keep) == [k \in (DOMAIN f) \cap keep |-> f[k]]

\* a stale cleanup that removes nothing
cleanup_stale_trip_states_keep(state) == state

\* RouteTripsState._cleanup_stale_trip_states
cleanup_stale_trip_states(state) ==
    LET cutoff_time == now - MAX_TRIP_AGE
        stale_trips == {trip_id \in DOMAIN state.trips :
                            state.trips[trip_id].updated_at < cutoff_time}
    IN [state EXCEPT !.trips = Restrict(state.trips, (DOMAIN state.trips) \ stale_trips)]

\* RouteTripsState._purge_trips_state_if_overnight
purge_trips_state_if_overnight(state) ==
    IF state.service_date < CurrentServiceDate
    THEN [service_date |-> CurrentServiceDate, trips |-> <<>>]
    ELSE state

\* RouteTripsState._cleanup_trip_states
cleanup_trip_states(state) ==
    purge_trips_state_if_overnight(cleanup_stale_trip_states(state))

\* datetime.isoformat: the date and the time of day, in text
datetime_isoformat(ts) == <<DayOf(ts), HourOf(ts)>>

\* a parse that keeps the date and loses the time of day
datetime_fromisoformat_date(text) == 24 * text[1]

\* datetime.fromisoformat
datetime_fromisoformat(text) == 24 * text[1] + text[2]

\* date.isoformat
date_isoformat(d) == <<d>>

\* date.fromisoformat
date_fromisoformat(text) == text[1]

serialize_trip_state(trip_state) ==
    [trip_state EXCEPT !.updated_at = datetime_isoformat(@)]

deserialize_trip_state(trip_state) ==
    [trip_state EXCEPT !.updated_at = datetime_fromisoformat(@)]

\* write_trips_state_file: the file contents written for a route state
write_trips_state_file(state) ==
    [service_date |-> date_isoformat(state.service_date),
     trip_states |-> [trip_id \in DOMAIN state.trips |->
                        serialize_trip_state(state.trips[trip_id])]]

\* what a state file can hold besides what write_trips_state_file wrote:
\* text that is not JSON (a truncated write, an empty file), a JSON object
\* without the two keys, and JSON that has the keys but not the values
\* (a trip state without updated_at, a date that is no ISO date, null)
Damages == {"not_json", "missing_keys", "wrong_values"}
DamagedFiles == [damage : Damages]

\* read_trips_state_file raises: only JSONDecodeError is caught
read_trips_state_file_raises(route_id) ==
    /\ route_id \in DOMAIN files
    /\ "damage" \in DOMAIN files[route_id]
    /\ files[route_id].damage = "wrong_values"

\* read_trips_state_file, when it returns: <<>> for None, else a one-element tuple
read_trips_state_file(route_id) ==
    IF route_id \notin DOMAIN files THEN <<>>
    ELSE LET file_contents == files[route_id]
         IN IF "damage" \in DOMAIN file_contents THEN <<>>
            ELSE <<[trip_states |->
                        [trip_id \in DOMAIN file_contents.trip_states |->
                            deserialize_trip_state(file_contents.trip_states[trip_id])],
                    service_date |-> date_fromisoformat(file_contents.service_date)]>>

\* RouteTripsState.__post_init__, when read_trips_state_file returns
RouteTripsState(route_id) ==
    LET state_file == read_trips_state_file(route_id)
    IN IF state_file # <<>>
       THEN cleanup_trip_states([service_date |-> state_file[1].service_date,
                                 trips |-> state_file[1].trip_states])
       ELSE [service_date |-> CurrentServiceDate, trips |-> <<>>]

\* set_trip_state running the cleanup after the insert instead of before
route_set_trip_state_cleanup_last(state, trip_id, trip_state) ==
    cleanup_trip_states(
        [state EXCEPT !.trips =
            [t \in (DOMAIN state.trips) \cup {trip_id} |->
                IF t = trip_id THEN trip_state ELSE state.trips[t]]])

\* RouteTripsState.set_trip_state: the route state after the call
route_set_trip_state(state, trip_id, trip_state) ==
    LET cleaned == cleanup_trip_states(state)
    IN [cleaned EXCEPT !.trips =
            [t \in (DOMAIN cleaned.trips) \cup {trip_id} |->
                IF t = trip_id THEN trip_state ELSE cleaned.trips[t]]]

\* TripsStateManager.get_trip_state: <<>> for None, else a one-element tuple
get_trip_state(route_id, trip_id) ==
    IF route_id \notin DOMAIN route_states THEN <<>>
    ELSE IF trip_id \in DOMAIN route_states[route_id].trips
         THEN <<route_states[route_id].trips[trip_id]>>
         ELSE <<>>

\* TripsStateManager.set_trip_state, with write_trips_state_file
set_trip_state(route_id, trip_id, trip_state) ==
    LET state == IF route_id \in DOMAIN route_states
                 THEN route_states[route_id]
                 ELSE RouteTripsState(route_id)
        after == route_set_trip_state(state, trip_id, trip_state)
    IN /\ route_states' = [r \in (DOMAIN route_states) \cup {route_id} |->
                              IF r = route_id THEN after ELSE route_states[r]]
       /\ files' = [r \in (DOMAIN files) \cup {route_id} |->
                              IF r = route_id THEN write_trips_state_file(after)
                              ELSE files[r]]
       /\ CacheAfterCall

(***************************************************************************)
(* event.py                                                                 *)
(***************************************************************************)
\* event.reduce_update_event, for an update without carriages
reduce_update_event(update) ==
    [current_status |-> update.current_status,
     event_type |-> EVENT_TYPE_MAP[update.current_status],
     current_stop_sequence |-> update.current_stop_sequence,
     direction_id |-> update.direction_id,
     route_id |-> update.route_id,
     stop_id |-> update.stop_id,
     trip_id |-> update.trip_id,
     vehicle_label |-> update.label,
     updated_at |-> update.updated_at,
     vehicle_consist |-> update.label,
     occupancy_status |-> update.occupancy_status,
     occupancy_percentage |-> None]

\* event.arr_or_dep_event: is_departure_event
is_departure_event(prev, current_stop_sequence, stop_id) ==
    prev.stop_id # stop_id /\ prev.stop_sequence < current_stop_sequence

\* is_arrival_event comparing the previous event type with the wrong value
is_arrival_event_wrong_prev(prev, current_status) ==
    current_status = "STOPPED_AT" /\ prev.event_type = "ARR"

\* event.arr_or_dep_event: is_arrival_event
is_arrival_event(prev, current_status) ==
    current_status = "STOPPED_AT" /\ prev.event_type = "DEP"

\* a stop filter that lets every stop of every route through
passes_stop_filter_open(route_id, stop_id) == TRUE

\* the stop filter of process_event
passes_stop_filter(route_id, stop_id) ==
    \/ route_id \in ROUTES_CR \cup ROUTES_RAPID
    \/ stop_id \in BusStopsGet(route_id)

\* the event branch without the reassignment of stop_id
event_stop_id_own(is_dep, prev, stop_id) == stop_id

\* the stop_id process_event uses from the event branch on
event_stop_id(is_dep, prev, stop_id) ==
    IF is_dep THEN prev.stop_id ELSE stop_id

\* the event_type process_event writes and stores
written_event_type(event_type, is_dep, is_arr) == event_type

\* the stop_id handed to set_trip_state
stored_stop_id(fired, is_dep, prev, stop_id) ==
    IF fired THEN event_stop_id(is_dep, prev, stop_id) ELSE stop_id

\* the row built by process_event and passed through enrich_event
event_row(e, stop_id, event_type) ==
    [service_date |-> service_date(e.updated_at),
     route_id |-> e.route_id,
     trip_id |-> e.trip_id,
     direction_id |-> e.direction_id,
     stop_id |-> stop_id,
     stop_sequence |-> e.current_stop_sequence,
     vehicle_id |-> "0",
     vehicle_label |-> e.vehicle_label,
     event_type |-> event_type,
     event_time |-> e.updated_at,
     vehicle_consist |-> e.vehicle_consist,
     occupancy_status |-> e.occupancy_status,
     occupancy_percentage |-> e.occupancy_percentage]

\* a first-observation snapshot that always claims a departure
prev_trip_state_dep(e) ==
    LET stored == get_trip_state(e.route_id, e.trip_id)
    IN IF stored = <<>>
       THEN [stop_sequence |-> e.current_stop_sequence,
             stop_id |-> e.stop_id,
             updated_at |-> e.updated_at,
             event_type |-> "DEP"]
       ELSE [stop_sequence |-> stored[1].stop_sequence,
             stop_id |-> stored[1].stop_id,
             updated_at |-> stored[1].updated_at,
             event_type |-> stored[1].event_type]

\* the previous state process_event compares with: the stored one, or the
\* snapshot synthesised from the update on the first observation
prev_trip_state(e) ==
    LET stored == get_trip_state(e.route_id, e.trip_id)
    IN IF stored = <<>>
       THEN [stop_sequence |-> e.current_stop_sequence,
             stop_id |-> e.stop_id,
             updated_at |-> e.updated_at,
             event_type |-> e.event_type]
       ELSE [stop_sequence |-> stored[1].stop_sequence,
             stop_id |-> stored[1].stop_id,
             updated_at |-> stored[1].updated_at,
             event_type |-> stored[1].event_type]

\* the worker holds no update
NoEvent ==
    [current_status |-> None, current_stop_sequence |-> 0, direction_id |-> 0,
     route_id |-> None, stop_id |-> None, trip_id |-> None, label |-> None,
     occupancy_status |-> None, updated_at |-> 0]

NoLast ==
    [outcome |-> "none", fault |-> "none", seen |-> FALSE, is_dep |-> FALSE,
     is_arr |-> FALSE, wrote |-> FALSE, gtfs_calls |-> 0, set_calls |-> 0]

\* event.process_event on the update held by the worker; fault names the
\* downstream call that raises if it is reached
process_event(update, fault) ==
    LET e == reduce_update_event(update)
        stored == get_trip_state(e.route_id, e.trip_id)
        prev == prev_trip_state(e)
        is_dep == is_departure_event(prev, e.current_stop_sequence, e.stop_id)
        is_arr == is_arrival_event(prev, e.current_status)
        fired == is_dep \/ is_arr
        stop_id == event_stop_id(is_dep, prev, e.stop_id)
        event_type == written_event_type(e.event_type, is_dep, is_arr)
        passes == passes_stop_filter(e.route_id, stop_id)
        loads == fired /\ current_gtfs_archive = NoDate
        raises == \/ loads /\ fault = "archive"
                  \/ fired /\ passes /\ fault = "enrich_or_write"
        writes == fired /\ passes /\ ~raises
        row == event_row(e, stop_id, event_type)
        seen == [seen |-> stored # <<>>, is_dep |-> is_dep, is_arr |-> is_arr]
    IN
    IF e.stop_id = None
    THEN /\ last' = [NoLast EXCEPT !.outcome = "skipped"]
         /\ UNCHANGED <<cache_hour, service_date_cache, route_states, files,
                        current_gtfs_archive, latest_row>>
    ELSE /\ current_gtfs_archive' =
                IF loads /\ fault # "archive" THEN service_date(now)
                ELSE current_gtfs_archive
         /\ latest_row' =
                IF writes
                THEN [k \in (DOMAIN latest_row) \cup {<<e.route_id, e.trip_id>>} |->
                        IF k = <<e.route_id, e.trip_id>> THEN row ELSE latest_row[k]]
                ELSE latest_row
         /\ IF raises
            THEN /\ last' = seen @@ [outcome |-> "raised", fault |-> fault, wrote |-> FALSE,
                                     gtfs_calls |-> 1, set_calls |-> 0]
                 /\ UNCHANGED <<cache_hour, service_date_cache, route_states, files>>
            ELSE /\ last' = seen @@ [outcome |-> "returned", fault |-> "none",
                                     wrote |-> writes,
                                     gtfs_calls |-> IF fired THEN 1 ELSE 0,
                                     set_calls |-> 1]
                 /\ set_trip_state(e.route_id, e.trip_id,
                        [stop_sequence |-> e.current_stop_sequence,
                         stop_id |-> stored_stop_id(fired, is_dep, prev, e.stop_id),
                         updated_at |-> e.updated_at,
                         event_type |-> event_type,
                         vehicle_consist |-> e.vehicle_consist,
                         occupancy_status |-> e.occupancy_status,
                         occupancy_percentage |-> e.occupancy_percentage])

(***************************************************************************)
(* gobble.py: the worker loops                                              *)
(***************************************************************************)
\* the updates the followed worker is handed
WorkerUpdates == {update \in Updates : update.route_id \in routes}

\* the worker takes its next update: event_queue.get() in
\* client_thread_gtfs_rt_shared, the next item of poll_events in
\* client_thread_gtfs_rt, an "update" or "add" stream event in process_events
GetUpdate(update) ==
    /\ pc = "get"
    /\ pending = 0
    /\ pc' = "process"
    /\ event' = update
    /\ last' = NoLast
    /\ UNCHANGED <<routes, now, cache_hour, service_date_cache, route_states, files,
                   current_gtfs_archive, latest_row, pending, aux_vars>>

\* process_events receives a "reset" stream event carrying n updates
ReceiveReset(n) ==
    /\ pc = "get"
    /\ pending = 0
    /\ pending' = n
    /\ UNCHANGED <<routes, now, cache_hour, service_date_cache, route_states, files,
                   current_gtfs_archive, latest_row, pc, event, last, aux_vars>>

\* the for loop over a reset payload takes the next update of the payload
NextResetUpdate(update) ==
    /\ pc = "get"
    /\ pending > 0
    /\ pc' = "process"
    /\ event' = update
    /\ last' = NoLast
    /\ UNCHANGED <<routes, now, cache_hour, service_date_cache, route_states, files,
                   current_gtfs_archive, latest_row, pending, aux_vars>>

\* process_event inside the worker's try/except.  The exception of a single
\* update is caught and the loop goes on; inside a reset payload it leaves
\* the for loop for the except clause of process_events, which continues
\* with the next stream event
ProcessEvent(fault) ==
    /\ pc = "process"
    /\ process_event(event, fault)
    /\ pc' = "get"
    /\ event' = NoEvent
    /\ pending' = IF pending = 0 \/ last'.outcome = "raised" THEN 0 ELSE pending - 1
    /\ UNCHANGED <<routes, now, aux_vars>>

\* time passes
Tick ==
    /\ now < MaxNow
    /\ now' = now + 1
    /\ UNCHANGED <<routes, cache_hour, service_date_cache, route_states, files,
                   current_gtfs_archive, latest_row, pending, pc, event, last, aux_vars>>

\* no call has been made on the store
NoCall == [op |-> "none", n |-> 0]

StoreInit ==
    /\ call = NoCall
    /\ held = <<>>

\* GtfsRtClient.__init__
PollInit ==
    /\ previous_positions = <<>>
    /\ feed = <<>>
    /\ fetched = FALSE
    /\ yielded = <<>>
    /\ evicted = {}
    /\ back = {}
    /\ polls = 0

\* nothing has been broadcast
NoBroadcast == [op |-> "none", n |-> 0]

\* SharedGtfsRtFetcher.__init__
FetcherInit ==
    /\ subscribers = <<>>
    /\ broadcast = NoBroadcast

\* the routes of constants.py
CATALOG_ROUTES_RAPID == {"Blue", "Green-B", "Green-C", "Green-D", "Green-E", "Orange", "Red"}
CATALOG_ROUTES_CR ==
    {"CR-Fairmount", "CR-Fitchburg", "CR-Foxboro", "CR-Franklin", "CR-Greenbush",
     "CR-Haverhill", "CR-Kingston", "CR-Lowell", "CR-Middleborough", "CR-Needham",
     "CR-Newburyport", "CR-Providence", "CR-Worcester"}
\* the keys of BUS_STOPS, in the order of the file
CATALOG_BUS_STOPS_KEYS ==
    <<"1", "4", "9", "10", "11", "14", "15", "16", "17", "18", "19", "21", "22", "23",
      "26", "28", "32", "34", "39", "41", "45", "47", "55", "57", "61", "66", "70",
      "71", "73", "77", "85", "86", "89", "91", "92", "104", "109", "111", "114",
      "116", "117", "220", "221", "222">>
\* the elements of a list
set(list) == {list[k] : k \in 1..Len(list)}
CATALOG_ROUTES_BUS == set(CATALOG_BUS_STOPS_KEYS)

\* list(ROUTES_BUS): a set iterates in an order the program does not choose;
\* the orders followed are the rotations of the order of the file
ListsOfRoutesBus ==
    {[k \in 1..Len(CATALOG_BUS_STOPS_KEYS) |->
         CATALOG_BUS_STOPS_KEYS[((k + r - 1) % Len(CATALOG_BUS_STOPS_KEYS)) + 1]] :
       r \in 0..(Len(CATALOG_BUS_STOPS_KEYS) - 1)}

\* no update has been handed to the workers
NoDispatch == [op |-> "none", n |-> 0]

\* main, before any worker is started
MainInit ==
    /\ bus_list = <<>>
    /\ workers = <<>>
    /\ dispatch = NoDispatch

\* the threads that write events
Threads == {"rapid_routes", "cr_routes"}

\* a thread outside write_event
Idle == [pc |-> "idle"]

\* an empty data directory, nobody writing
DiskInit ==
    /\ data_dir = <<>>
    /\ writers = [t \in Threads |-> Idle]
    /\ disk_log = <<>>
    /\ overlap = FALSE

\* the thread of gtfs.update_gtfs_thread
Watcher == "update_gtfs"
LoadThreads == Threads \cup {Watcher}

\* a thread that has not called the archive functions yet
NoLoad == [pc |-> "idle", date |-> NoDate, found_none |-> FALSE, outcome |-> "none",
           got |-> NoDate]

\* the lock is free and nothing was read
LoadInit ==
    /\ write_gtfs_archive_lock = "free"
    /\ loaders = [t \in LoadThreads |-> NoLoad]
    /\ read_gtfs_runs = <<>>
    /\ read_failures = 0

\* client_thread_sse enters its loop
SseThreadStart ==
    [pc |-> "connect", client |-> "none", raised |-> "none", slept |-> 0,
     connections |-> 0, received |-> 0]

\* the threads of GTFS-RT mode: the shared fetcher, the workers that consume
\* its queues, and a worker that polls by itself
RtFetcher == "gtfs_rt_fetcher"
RtPoller == "client_thread_gtfs_rt"
RtThreads == {RtFetcher, RtPoller} \cup Threads

\* a GTFS-RT thread enters its function
RtThreadStart(t) ==
    [pc |-> IF t = RtFetcher THEN "poll" ELSE IF t = RtPoller THEN "create" ELSE "get",
     raised |-> "none", n |-> 0]

ThreadInit ==
    /\ sse_thread = SseThreadStart
    /\ rt_threads = [t \in RtThreads |-> RtThreadStart(t)]

\* no service date function has been called
NoDateCall == [op |-> "none", n |-> 0]

DateInit == date_call = NoDateCall

\* no schedule or archive function has been called
GtfsInit == gtfs_call = [op |-> "none", n |-> 0]

OrderInit == vehicle_seq = <<>>

MoreInit == DiskInit /\ LoadInit /\ ThreadInit /\ DateInit /\ GtfsInit /\ OrderInit

AuxInit == StoreInit /\ PollInit /\ FetcherInit /\ MainInit /\ MoreInit

Init ==
    /\ routes \in WorkerRoutes
    /\ now = StartNow
    /\ cache_hour = NoHour
    /\ service_date_cache = NoDate
    /\ route_states = <<>>
    /\ files = <<>>
    /\ current_gtfs_archive = NoDate
    /\ latest_row = <<>>
    /\ pending = 0
    /\ pc = "get"
    /\ event = NoEvent
    /\ last = NoLast
    /\ AuxInit

\* a worker fed one update at a time
Next ==
    \/ \E update \in WorkerUpdates : GetUpdate(update)
    \/ \E fault \in Faults : ProcessEvent(fault)
    \/ Tick

Spec == Init /\ [][Next]_vars

\* the worker takes its next update from a feed in which the stop sequence
\* of a trip never goes down from one update to the next
GetUpdateInOrder(update) ==
    LET k == <<update.route_id, update.trip_id>> IN
    /\ pc = "get"
    /\ pending = 0
    /\ k \in DOMAIN vehicle_seq => vehicle_seq[k] <= update.current_stop_sequence
    /\ vehicle_seq' = [j \in (DOMAIN vehicle_seq) \cup {k} |->
                         IF j = k THEN update.current_stop_sequence ELSE vehicle_seq[j]]
    /\ pc' = "process"
    /\ event' = update
    /\ last' = NoLast
    /\ UNCHANGED <<routes, now, cache_hour, service_date_cache, route_states, files,
                   current_gtfs_archive, latest_row, pending, store_vars, poll_vars,
                   fetcher_vars, main_vars, disk_vars, load_vars, thread_vars, date_vars,
                   gtfs_vars>>

\* the rapid-transit worker fed by such a feed
InitInOrder == Init /\ routes = ROUTES_RAPID

NextInOrder ==
    \/ \E update \in WorkerUpdates : GetUpdateInOrder(update)
    \/ \E fault \in Faults : ProcessEvent(fault)
    \/ Tick

SpecInOrder == InitInOrder /\ [][NextInOrder]_vars

\* the rapid-transit worker in SSE mode, whose stream also carries reset payloads
InitSse == Init /\ routes = ROUTES_RAPID

NextSse ==
    \/ \E update \in WorkerUpdates : GetUpdate(update)
    \/ \E n \in 1..MaxBatch : ReceiveReset(n)
    \/ \E update \in WorkerUpdates : NextResetUpdate(update)
    \/ \E fault \in Faults : ProcessEvent(fault)
    \/ Tick

SpecSse == InitSse /\ [][NextSse]_vars

(***************************************************************************)
(* trip_state.py under its callers: the calls of a TripsStateManager, the   *)
(* state files it finds at the start of a process, and days of silence.     *)
(***************************************************************************)
\* hours in a day
DAY == 24

\* the trips and the trip states the store is called with
StoreTripIds == TripIds \cup {"trip_456"}
TripStates ==
    [stop_sequence : {1},
     stop_id : {"110"},
     updated_at : Times,
     event_type : {"ARR", "DEP"},
     vehicle_consist : {"1234"},
     occupancy_status : {None},
     occupancy_percentage : {None}]

\* a get_trip_state that hands out the stored dict itself
route_get_trip_state_same(state, trip_id) ==
    IF trip_id \in DOMAIN state.trips
    THEN <<[alias |-> TRUE, value |-> state.trips[trip_id]]>>
    ELSE <<>>

\* RouteTripsState.get_trip_state: <<>> for None, else the dict returned;
\* alias tells whether it is the stored dict itself or, as {**trip}, a new one
route_get_trip_state(state, trip_id) ==
    IF trip_id \in DOMAIN state.trips
    THEN <<[alias |-> FALSE, value |-> state.trips[trip_id]]>>
    ELSE <<>>

\* the returned dict is the stored one only as long as that one stays stored
StillStored(route_id, trip_id) ==
    /\ held # <<>>
    /\ held[1].alias
    /\ ~(held[1].route_id = route_id /\ held[1].trip_id = trip_id)
    /\ held[1].route_id \in DOMAIN route_states'
    /\ held[1].trip_id \in DOMAIN route_states'[held[1].route_id].trips

\* TripsStateManager.set_trip_state called by a worker
StoreSet(route_id, trip_id, trip_state) ==
    /\ IF route_id \notin DOMAIN route_states /\ read_trips_state_file_raises(route_id)
       THEN /\ call' = [op |-> "set", route_id |-> route_id, trip_id |-> trip_id,
                        trip_state |-> trip_state, outcome |-> "raised", n |-> 1 - call.n]
            /\ UNCHANGED <<cache_hour, service_date_cache, route_states, files>>
       ELSE /\ call' = [op |-> "set", route_id |-> route_id, trip_id |-> trip_id,
                        trip_state |-> trip_state, outcome |-> "returned", n |-> 1 - call.n]
            /\ set_trip_state(route_id, trip_id, trip_state)
    /\ held' = IF held = <<>> THEN <<>>
               ELSE <<[held[1] EXCEPT !.alias = StillStored(route_id, trip_id)]>>
    /\ UNCHANGED <<routes, now, current_gtfs_archive, latest_row, pending, pc, event, last,
                   poll_vars, fetcher_vars, main_vars, more_vars>>

\* TripsStateManager.get_trip_state called by a worker
StoreGet(route_id, trip_id) ==
    LET found == IF route_id \notin DOMAIN route_states THEN <<>>
                 ELSE route_get_trip_state(route_states[route_id], trip_id)
    IN /\ held' = IF found = <<>> THEN <<>>
                  ELSE <<[route_id |-> route_id, trip_id |-> trip_id,
                          alias |-> found[1].alias, value |-> found[1].value]>>
       /\ call' = [op |-> "get", route_id |-> route_id, trip_id |-> trip_id,
                   outcome |-> IF found = <<>> THEN "none" ELSE "found", n |-> 1 - call.n]
       /\ UNCHANGED <<routes, now, cache_hour, service_date_cache, route_states, files,
                      current_gtfs_archive, latest_row, pending, pc, event, last,
                   poll_vars, fetcher_vars, main_vars, more_vars>>

\* the caller assigns to a key of the dict get_trip_state returned
ModifyHeld(event_type) ==
    /\ held # <<>>
    /\ held[1].value.event_type # event_type
    /\ held' = <<[held[1] EXCEPT !.value.event_type = event_type]>>
    /\ route_states' =
          IF held[1].alias
          THEN [route_states EXCEPT
                   ![held[1].route_id].trips[held[1].trip_id].event_type = event_type]
          ELSE route_states
    /\ call' = [op |-> "modify", n |-> 1 - call.n]
    /\ UNCHANGED <<routes, now, cache_hour, service_date_cache, files,
                   current_gtfs_archive, latest_row, pending, pc, event, last,
                   poll_vars, fetcher_vars, main_vars, more_vars>>

\* the process is restarted: a new TripsStateManager, util's cache is unset,
\* the state files are what the old process left
Restart ==
    /\ route_states' = <<>>
    /\ cache_hour' = NoHour
    /\ service_date_cache' = NoDate
    /\ held' = <<>>
    /\ call' = [op |-> "restart", n |-> 1 - call.n]
    /\ UNCHANGED <<routes, now, files, current_gtfs_archive, latest_row, pending, pc,
                   event, last,
                   poll_vars, fetcher_vars, main_vars, more_vars>>

\* a state file is left with contents write_trips_state_file did not finish
\* or did not write
Damage(route_id, damage) ==
    /\ files' = [r \in (DOMAIN files) \cup {route_id} |->
                    IF r = route_id THEN [damage |-> damage] ELSE files[r]]
    /\ call' = [op |-> "damage", n |-> 1 - call.n]
    /\ UNCHANGED <<routes, now, cache_hour, service_date_cache, route_states,
                   current_gtfs_archive, latest_row, pending, pc, event, last, held,
                   poll_vars, fetcher_vars, main_vars, more_vars>>

\* a day goes by without any call
TickDay ==
    /\ now <= MaxNow
    /\ now' = now + DAY
    /\ UNCHANGED <<routes, cache_hour, service_date_cache, route_states, files,
                   current_gtfs_archive, latest_row, pending, pc, event, last, aux_vars>>

\* the process of the followed worker is restarted between two updates or
\* while it holds one: a new TripsStateManager, no archive loaded, util's
\* cache unset; the state files and the shards are what the old process left
RestartWorker ==
    /\ route_states' = <<>>
    /\ cache_hour' = NoHour
    /\ service_date_cache' = NoDate
    /\ current_gtfs_archive' = NoDate
    /\ pc' = "get"
    /\ event' = NoEvent
    /\ pending' = 0
    /\ last' = NoLast
    /\ held' = <<>>
    /\ call' = [op |-> "restart", n |-> 1 - call.n]
    /\ UNCHANGED <<routes, now, files, latest_row,
                   poll_vars, fetcher_vars, main_vars, more_vars>>

\* a rapid-transit worker whose process can be restarted
InitRestart == Init /\ routes = ROUTES_RAPID

NextRestart ==
    \/ \E update \in WorkerUpdates : GetUpdate(update)
    \/ \E fault \in Faults : ProcessEvent(fault)
    \/ Tick
    \/ RestartWorker

SpecRestart == InitRestart /\ [][NextRestart]_vars

InitStore == Init /\ routes = ROUTES_RAPID

NextStore ==
    \/ \E route_id \in routes, trip_id \in StoreTripIds, trip_state \in TripStates :
          StoreSet(route_id, trip_id, trip_state)
    \/ \E route_id \in routes, trip_id \in StoreTripIds : StoreGet(route_id, trip_id)
    \/ \E event_type \in {"ARR", "DEP"} : ModifyHeld(event_type)
    \/ Restart
    \/ \E route_id \in routes, damage \in Damages : Damage(route_id, damage)
    \/ Tick
    \/ TickDay

SpecStore == InitStore /\ [][NextStore]_vars

(***************************************************************************)
(* gtfs_rt_client.py: the polling client and its de-duplication cache       *)
(***************************************************************************)
\* most entities in one feed
MaxEntities == 2

VEHICLE_STOP_STATUS_MAP == <<"INCOMING_AT", "STOPPED_AT", "IN_TRANSIT_TO">>

\* the enum value of OccupancyStatus FULL, and its name
OCCUPANCY_FULL == 5
OCCUPANCY_STATUS_MAP == [occupancy_status \in {OCCUPANCY_FULL} |-> "FULL"]

\* main: the routes the shared client polls for
all_routes == ROUTES_RAPID \cup ROUTES_CR \cup ROUTES_BUS

\* a VehiclePosition of the feed; None stands for a field that is not set,
\* current_status is the enum value, occupancy_status is <<>> when not set
\* and else holds the enum value
BaseVehicle(trip_id) ==
    [trip_id |-> trip_id,
     route_id |-> "Red",
     stop_id |-> "110",
     current_status |-> 1,
     current_stop_sequence |-> 1,
     occupancy_status |-> <<>>,
     multi_carriage_details |-> <<>>,
     label |-> "1234",
     timestamp |-> MinTime]

\* the vehicle positions that differ from the base one in one field
VehicleVariants(trip_id) ==
    LET base == BaseVehicle(trip_id)
    IN {base,
        [base EXCEPT !.stop_id = "99"],
        [base EXCEPT !.current_status = 2],
        [base EXCEPT !.current_stop_sequence = MaxSeq],
        [base EXCEPT !.occupancy_status = <<OCCUPANCY_FULL>>],
        [base EXCEPT !.multi_carriage_details = <<"1234", "1235">>],
        [base EXCEPT !.timestamp = MaxTime]}

\* the entities a feed is made of: a trip in every variant, a second trip,
\* a vehicle of a route outside the filter, a vehicle without trip_id
Vehicles ==
    VehicleVariants("trip_123")
        \cup {BaseVehicle("trip_456"),
              [BaseVehicle("trip_789") EXCEPT !.route_id = "747"],
              BaseVehicle(None)}

Feeds == UNION {[1..n -> Vehicles] : n \in 0..MaxEntities}

\* convert_vehicle_position_to_event: <<>> for None, else a one-element tuple
convert_vehicle_position_to_event(vehicle) ==
    IF vehicle.trip_id = None \/ vehicle.route_id = None THEN <<>>
    ELSE <<[current_status |-> VEHICLE_STOP_STATUS_MAP[vehicle.current_status + 1],
            updated_at |-> datetime_isoformat(vehicle.timestamp),
            current_stop_sequence |-> vehicle.current_stop_sequence,
            direction_id |-> 0,
            label |-> vehicle.label,
            occupancy_status |->
                IF vehicle.occupancy_status = <<>> THEN None
                ELSE OCCUPANCY_STATUS_MAP[vehicle.occupancy_status[1]],
            occupancy_percentage |-> None,
            carriages |-> vehicle.multi_carriage_details,
            route_id |-> vehicle.route_id,
            stop_id |-> IF vehicle.stop_id = "" THEN None ELSE vehicle.stop_id,
            trip_id |-> vehicle.trip_id]>>

\* a change test that does not look at the occupancy
has_position_changed_no_occupancy(positions, trip_id, new_event) ==
    IF trip_id \notin DOMAIN positions THEN TRUE
    ELSE LET prev == positions[trip_id]
         IN \/ prev.stop_id # new_event.stop_id
            \/ prev.current_status # new_event.current_status
            \/ prev.current_stop_sequence # new_event.current_stop_sequence
            \/ prev.carriages # new_event.carriages

\* GtfsRtClient._has_position_changed against the cache positions
has_position_changed(positions, trip_id, new_event) ==
    IF trip_id \notin DOMAIN positions THEN TRUE
    ELSE LET prev == positions[trip_id]
         IN \/ prev.stop_id # new_event.stop_id
            \/ prev.current_status # new_event.current_status
            \/ prev.current_stop_sequence # new_event.current_stop_sequence
            \/ prev.occupancy_status # new_event.occupancy_status
            \/ prev.carriages # new_event.carriages

\* the body of the loop over feed.entity for one entity; acc carries
\* _previous_positions, current_trip_ids and the events yielded so far
poll_entity(vehicle, acc) ==
    IF vehicle.route_id \notin all_routes THEN acc
    ELSE LET converted == convert_vehicle_position_to_event(vehicle)
         IN IF converted = <<>> THEN acc
            ELSE LET new_event == converted[1]
                     trip_id == new_event.trip_id
                 IN [positions |->
                        [t \in (DOMAIN acc.positions) \cup {trip_id} |->
                            IF t = trip_id THEN new_event ELSE acc.positions[t]],
                     current_trip_ids |-> acc.current_trip_ids \cup {trip_id},
                     yielded |->
                        IF has_position_changed(acc.positions, trip_id, new_event)
                        THEN Append(acc.yielded, new_event)
                        ELSE acc.yielded]

\* the loop over feed.entity, from entity i on
RECURSIVE poll_entities(_, _, _)
poll_entities(entities, i, acc) ==
    IF i > Len(entities) THEN acc
    ELSE poll_entities(entities, i + 1, poll_entity(entities[i], acc))

\* a poll that leaves the trips missing from the feed in the cache
remove_stale_trips_keep(positions, current_trip_ids) == positions

\* the cache after the trips missing from the feed were deleted
remove_stale_trips(positions, current_trip_ids) ==
    Restrict(positions, current_trip_ids)

\* one turn of poll_events on a feed that was fetched
Poll(entities) ==
    LET acc == poll_entities(entities, 1,
                   [positions |-> previous_positions, current_trip_ids |-> {},
                    yielded |-> <<>>])
    IN /\ previous_positions' = remove_stale_trips(acc.positions, acc.current_trip_ids)
       /\ feed' = <<entities>>
       /\ fetched' = TRUE
       /\ yielded' = acc.yielded
       /\ evicted' = (evicted \cup (DOMAIN acc.positions)) \ (DOMAIN previous_positions')
       /\ back' = evicted \cap (DOMAIN previous_positions')
       /\ polls' = 1 - polls
       /\ UNCHANGED <<routes, now, cache_hour, service_date_cache, route_states, files,
                      current_gtfs_archive, latest_row, pending, pc, event, last,
                      store_vars, fetcher_vars, main_vars, more_vars>>

\* one turn of poll_events in which fetch_vehicle_positions returned None
PollFailed ==
    /\ fetched' = FALSE
    /\ yielded' = <<>>
    /\ back' = {}
    /\ polls' = 1 - polls
    /\ UNCHANGED <<routes, now, cache_hour, service_date_cache, route_states, files,
                   current_gtfs_archive, latest_row, pending, pc, event, last,
                   store_vars, previous_positions, feed, evicted, fetcher_vars, main_vars, more_vars>>

\* the client of the shared fetcher, next to an idle rapid-transit worker
InitPoll == Init /\ routes = ROUTES_RAPID

NextPoll ==
    \/ \E entities \in Feeds : Poll(entities)
    \/ PollFailed

SpecPoll == InitPoll /\ [][NextPoll]_vars

(***************************************************************************)
(* gobble.py: the shared fetcher and the queues of its subscribers          *)
(***************************************************************************)
\* capacity of a subscriber queue; queue.Queue(maxsize=1000) in the source,
\* scaled down
QueueMaxsize == 2
\* most subscribers
MaxSubscribers == 2

\* the events poll_events hands to the fetcher
FetchedEvents == UNION {UpdatesWithoutStop(route_id) : route_id \in ROUTES_RAPID \cup ROUTES_CR}

\* a put that makes room by dropping the oldest update
put_nowait_drop_oldest(q, new_event) ==
    IF Len(q) >= QueueMaxsize THEN Append(Tail(q), new_event) ELSE Append(q, new_event)

\* q.put_nowait(event) inside try / except queue.Full: the queue afterwards
put_nowait(q, new_event) ==
    IF Len(q) >= QueueMaxsize THEN q ELSE Append(q, new_event)

\* SharedGtfsRtFetcher.subscribe
Subscribe ==
    /\ Len(subscribers) < MaxSubscribers
    /\ subscribers' = Append(subscribers, <<>>)
    /\ broadcast' = [op |-> "subscribe", n |-> 1 - broadcast.n]
    /\ UNCHANGED <<routes, now, cache_hour, service_date_cache, route_states, files,
                   current_gtfs_archive, latest_row, pending, pc, event, last,
                   store_vars, poll_vars, main_vars, more_vars>>

\* fetch_and_broadcast: one event of poll_events is put on every queue
Broadcast(new_event) ==
    /\ subscribers' = [i \in 1..Len(subscribers) |-> put_nowait(subscribers[i], new_event)]
    /\ broadcast' = [op |-> "broadcast", event |-> new_event,
                     dropped |-> {i \in 1..Len(subscribers) :
                                     Len(subscribers[i]) >= QueueMaxsize},
                     n |-> 1 - broadcast.n]
    /\ UNCHANGED <<routes, now, cache_hour, service_date_cache, route_states, files,
                   current_gtfs_archive, latest_row, pending, pc, event, last,
                   store_vars, poll_vars, main_vars, more_vars>>

\* event_queue.get() in the worker that owns queue i
QueueGet(i) ==
    /\ Len(subscribers[i]) > 0
    /\ subscribers' = [subscribers EXCEPT ![i] = Tail(@)]
    /\ broadcast' = [op |-> "get", n |-> 1 - broadcast.n]
    /\ UNCHANGED <<routes, now, cache_hour, service_date_cache, route_states, files,
                   current_gtfs_archive, latest_row, pending, pc, event, last,
                   store_vars, poll_vars, main_vars, more_vars>>

InitFetcher == Init /\ routes = ROUTES_RAPID

NextFetcher ==
    \/ Subscribe
    \/ \E new_event \in FetchedEvents : Broadcast(new_event)
    \/ \E i \in 1..Len(subscribers) : QueueGet(i)

SpecFetcher == InitFetcher /\ [][NextFetcher]_vars

(***************************************************************************)
(* gobble.py: main starts the workers and hands each its routes             *)
(***************************************************************************)
\* the chunk length in main's loop over the bus routes
CHUNK == 10

min(a, b) == IF a <= b THEN a ELSE b

\* a slice that takes one route too many
routes_bus_chunk_overlap(list, i) == SubSeq(list, i + 1, min(i + CHUNK + 1, Len(list)))

\* list(ROUTES_BUS)[i : i + 10]
routes_bus_chunk(list, i) == SubSeq(list, i + 1, min(i + CHUNK, Len(list)))

\* the value of i in "for i in range(0, len(list(ROUTES_BUS)), 10)" once the
\* workers started so far are running
main_i == CHUNK * (Len(workers) - 2)

\* main has started every worker
MainDone == Len(workers) >= 2 /\ bus_list # <<>> /\ main_i >= Len(bus_list)

\* rapid_thread
StartRapid ==
    /\ Len(workers) = 0
    /\ workers' = Append(workers, CATALOG_ROUTES_RAPID)
    /\ UNCHANGED <<routes, now, cache_hour, service_date_cache, route_states, files,
                   current_gtfs_archive, latest_row, pending, pc, event, last,
                   store_vars, poll_vars, fetcher_vars, more_vars, bus_list, dispatch>>

\* cr_thread
StartCr ==
    /\ Len(workers) = 1
    /\ workers' = Append(workers, CATALOG_ROUTES_CR)
    /\ UNCHANGED <<routes, now, cache_hour, service_date_cache, route_states, files,
                   current_gtfs_archive, latest_row, pending, pc, event, last,
                   store_vars, poll_vars, fetcher_vars, more_vars, bus_list, dispatch>>

\* the loop over the bus routes lists them
ListRoutesBus ==
    /\ Len(workers) = 2
    /\ bus_list = <<>>
    /\ bus_list' \in ListsOfRoutesBus
    /\ UNCHANGED <<routes, now, cache_hour, service_date_cache, route_states, files,
                   current_gtfs_archive, latest_row, pending, pc, event, last,
                   store_vars, poll_vars, fetcher_vars, more_vars, workers, dispatch>>

\* one turn of the loop over the bus routes
StartBusChunk ==
    /\ Len(workers) >= 2
    /\ bus_list # <<>>
    /\ main_i < Len(bus_list)
    /\ workers' = Append(workers, set(routes_bus_chunk(bus_list, main_i)))
    /\ UNCHANGED <<routes, now, cache_hour, service_date_cache, route_states, files,
                   current_gtfs_archive, latest_row, pending, pc, event, last,
                   store_vars, poll_vars, fetcher_vars, more_vars, bus_list, dispatch>>

\* an update of a route of all_routes reaches every worker;
\* client_thread_gtfs_rt_shared skips it unless the route is one of its own
Dispatch(route_id) ==
    /\ dispatch' = [op |-> "dispatch", route_id |-> route_id,
                    by |-> {w \in 1..Len(workers) : route_id \in workers[w]},
                    n |-> 1 - dispatch.n]
    /\ UNCHANGED <<routes, now, cache_hour, service_date_cache, route_states, files,
                   current_gtfs_archive, latest_row, pending, pc, event, last,
                   store_vars, poll_vars, fetcher_vars, more_vars, bus_list, workers>>

InitMain == Init /\ routes = ROUTES_RAPID

NextMain ==
    \/ StartRapid
    \/ StartCr
    \/ ListRoutesBus
    \/ StartBusChunk
    \/ \E route_id \in CATALOG_ROUTES_RAPID \cup CATALOG_ROUTES_CR \cup CATALOG_ROUTES_BUS :
          Dispatch(route_id)

SpecMain == InitMain /\ [][NextMain]_vars

(***************************************************************************)
(* disk.py: write_event                                                     *)
(***************************************************************************)
\* most write_event calls followed
MaxWrites == 3

CSV_FIELDS ==
    <<"service_date", "route_id", "trip_id", "direction_id", "stop_id", "stop_sequence",
      "vehicle_id", "vehicle_label", "event_type", "event_time", "scheduled_headway",
      "scheduled_tt">>

\* the fields of an event that hold numbers, dates or times
NumberFields == {"service_date", "direction_id", "stop_sequence", "event_time"}

\* event.enrich_event: the record handed to write_event; the schedule has no
\* headway or travel time for it
enrich_event(row) == row @@ [scheduled_headway |-> None, scheduled_tt |-> None]

\* the events process_event hands to write_event
DiskEvents ==
    {enrich_event(event_row(reduce_update_event(update), update.stop_id,
                            EVENT_TYPE_MAP[update.current_status])) :
       update \in {u \in UpdatesWithStop("Red") \cup UpdatesWithStop("CR-Fairmount") :
                     /\ u.stop_id = "110"
                     /\ u.current_stop_sequence = 1
                     /\ u.current_status = "STOPPED_AT"
                     /\ u.updated_at \in {MinTime, MaxTime}}}

\* util.output_dir_path
output_dir_path(route_id, direction_id, stop_id, ts) ==
    [mode |-> IF route_id \in ROUTES_CR THEN "cr"
              ELSE IF route_id \in ROUTES_RAPID THEN "rapid" ELSE "bus",
     stop_path |-> IF route_id \in ROUTES_CR
                   THEN <<route_id, "_", ToString(direction_id), "_", stop_id>>
                   ELSE IF route_id \in ROUTES_RAPID
                   THEN <<stop_id>>
                   ELSE <<route_id, "-", ToString(direction_id), "-", stop_id>>,
     date |-> service_date(ts)]

\* the shard of an event: dirname / CSV_FILENAME
pathname(e) == output_dir_path(e.route_id, e.direction_id, e.stop_id, e.event_time)

\* what csv writes for one value: None is empty, anything else its str()
csv_cell(value, field) ==
    IF field \in NumberFields THEN ToString(value)
    ELSE IF value = None THEN "" ELSE value

\* csv.DictWriter(fieldnames=CSV_FIELDS, extrasaction="ignore").writerow:
\* one cell per field name, other keys of the event are ignored
writerow(e) ==
    [i \in 1..Len(CSV_FIELDS) |->
        IF CSV_FIELDS[i] \in DOMAIN e THEN csv_cell(e[CSV_FIELDS[i]], CSV_FIELDS[i]) ELSE ""]

\* csv.DictWriter.writeheader
writeheader == CSV_FIELDS

\* a writer that puts the header before every row
written_lines_header_always(file_exists, e) == <<writeheader, writerow(e)>>

\* the lines the with-block of write_event hands to the file
written_lines(file_exists, e) ==
    IF ~file_exists THEN <<writeheader, writerow(e)>> ELSE <<writerow(e)>>

\* f with key k set to v
Put(f, k, v) == [x \in (DOMAIN f) \cup {k} |-> IF x = k THEN v ELSE f[x]]

\* the write_event calls made so far
Writes(log) == {<<path, i>> : path \in DOMAIN log, i \in 1..MaxWrites}

NumberOfWrites ==
    Cardinality({w \in Writes(disk_log) : w[2] <= Len(disk_log[w[1]])})

\* a thread calls write_event(e)
WriteCall(t, e) ==
    /\ writers[t].pc = "idle"
    /\ NumberOfWrites < MaxWrites
    /\ writers' = [writers EXCEPT ![t] = [pc |-> "isfile", event |-> e]]
    /\ disk_log' = Put(disk_log, pathname(e),
                       IF pathname(e) \in DOMAIN disk_log
                       THEN Append(disk_log[pathname(e)], e) ELSE <<e>>)
    /\ overlap' = (overlap \/ \E u \in Threads \ {t} : writers[u].pc # "idle")
    /\ UNCHANGED <<data_dir, outside_disk_vars>>

\* file_exists = os.path.isfile(pathname)
WriteIsFile(t) ==
    /\ writers[t].pc = "isfile"
    /\ writers' = [writers EXCEPT ![t] =
                      [pc |-> "open", event |-> @.event,
                       file_exists |-> pathname(@.event) \in DOMAIN data_dir]]
    /\ UNCHANGED <<data_dir, disk_log, overlap, outside_disk_vars>>

\* pathname.open("a"): the file is created when it is missing
WriteOpen(t) ==
    /\ writers[t].pc = "open"
    /\ writers' = [writers EXCEPT ![t].pc = "write"]
    /\ data_dir' = IF pathname(writers[t].event) \in DOMAIN data_dir THEN data_dir
                   ELSE Put(data_dir, pathname(writers[t].event), <<>>)
    /\ UNCHANGED <<disk_log, overlap, outside_disk_vars>>

\* the end of the with-block: the buffered lines are appended in one write
WriteClose(t) ==
    /\ writers[t].pc = "write"
    /\ data_dir' = [data_dir EXCEPT ![pathname(writers[t].event)] =
                       @ \o written_lines(writers[t].file_exists, writers[t].event)]
    /\ writers' = [writers EXCEPT ![t] = Idle]
    /\ UNCHANGED <<disk_log, overlap, outside_disk_vars>>

InitDisk == Init /\ routes = ROUTES_RAPID

NextDisk ==
    \/ \E t \in Threads, e \in DiskEvents : WriteCall(t, e)
    \/ \E t \in Threads : WriteIsFile(t)
    \/ \E t \in Threads : WriteOpen(t)
    \/ \E t \in Threads : WriteClose(t)

SpecDisk == InitDisk /\ [][NextDisk]_vars

(***************************************************************************)
(* util.py and gobble.py: the shard paths of the workers of main            *)
(***************************************************************************)
\* the direction ids of the feeds
DirectionIds == {0, 1}

\* a path that names the stop only, whatever the mode
shard_path_stop_only(route_id, direction_id, stop_id, ts) ==
    "daily-data/" \o stop_id \o "/Day=" \o ToString(service_date(ts))

\* util.output_dir_path with the routes of constants.py, as the string that
\* os.path.join returns; the date is the day number of the service date
shard_path(route_id, direction_id, stop_id, ts) ==
    LET date == service_date(ts)
        stop_path == IF route_id \in CATALOG_ROUTES_CR
                     THEN route_id \o "_" \o ToString(direction_id) \o "_" \o stop_id
                     ELSE IF route_id \in CATALOG_ROUTES_RAPID
                     THEN stop_id
                     ELSE route_id \o "-" \o ToString(direction_id) \o "-" \o stop_id
        mode == IF route_id \in CATALOG_ROUTES_CR THEN "cr"
                ELSE IF route_id \in CATALOG_ROUTES_RAPID THEN "rapid" ELSE "bus"
    IN "daily-" \o mode \o "-data/" \o stop_path \o "/Day=" \o ToString(date)

\* the workers started so far whose route set holds the route
OwnersOf(route_id) == {w \in 1..Len(workers) : route_id \in workers[w]}

\* a worker that owns the route processes an update of it and write_event
\* computes the shard of its row; one write is followed
WorkerWriteEvent(route_id, direction_id, stop_id, ts) ==
    /\ dispatch.op # "write"
    /\ OwnersOf(route_id) # {}
    /\ dispatch' = [op |-> "write", route_id |-> route_id, by |-> OwnersOf(route_id),
                    pathname |-> shard_path(route_id, direction_id, stop_id, ts),
                    n |-> 1 - dispatch.n]
    /\ UNCHANGED <<routes, now, cache_hour, service_date_cache, route_states, files,
                   current_gtfs_archive, latest_row, pending, pc, event, last,
                   store_vars, poll_vars, fetcher_vars, more_vars, bus_list, workers>>

InitShard == Init /\ routes = ROUTES_RAPID

NextShard ==
    \/ StartRapid
    \/ StartCr
    \/ ListRoutesBus
    \/ StartBusChunk
    \/ \E route_id \in CATALOG_ROUTES_RAPID \cup CATALOG_ROUTES_CR \cup CATALOG_ROUTES_BUS,
          direction_id \in DirectionIds, stop_id \in StopIds, ts \in {MinTime, MaxTime} :
          WorkerWriteEvent(route_id, direction_id, stop_id, ts)

SpecShard == InitShard /\ [][NextShard]_vars

(***************************************************************************)
(* gtfs.py: the current archive, its lock and the threads that load it      *)
(***************************************************************************)
\* most read_gtfs calls that raise
MaxFailures == 1

\* an update that is made whatever the current archive is
needs_update_always(current, gtfs_service_date) == TRUE

\* update_current_gtfs_archive_if_necessary: needs_update
needs_update(current, gtfs_service_date) ==
    current = NoDate \/ current # gtfs_service_date

\* where a thread goes when update_current_gtfs_archive_if_necessary returns
AfterUpdate(t) == IF t = Watcher THEN "idle" ELSE "return"

\* a worker calls get_current_gtfs_archive and looks at the current archive
GetCurrentGtfsArchive(t) ==
    /\ t \in Threads
    /\ loaders[t].pc = "idle"
    /\ loaders' = [loaders EXCEPT ![t] =
                      [NoLoad EXCEPT !.found_none = (current_gtfs_archive = NoDate),
                                     !.pc = IF current_gtfs_archive = NoDate
                                            THEN "acquire" ELSE "return"]]
    /\ UNCHANGED <<now, current_gtfs_archive, write_gtfs_archive_lock, read_gtfs_runs,
                   read_failures, outside_load_vars>>

\* update_gtfs_thread calls update_current_gtfs_archive_if_necessary
UpdateGtfsThread ==
    /\ loaders[Watcher].pc = "idle"
    /\ loaders' = [loaders EXCEPT ![Watcher] = [NoLoad EXCEPT !.pc = "acquire"]]
    /\ UNCHANGED <<now, current_gtfs_archive, write_gtfs_archive_lock, read_gtfs_runs,
                   read_failures, outside_load_vars>>

\* with write_gtfs_archive_lock
AcquireLock(t) ==
    /\ loaders[t].pc = "acquire"
    /\ write_gtfs_archive_lock = "free"
    /\ write_gtfs_archive_lock' = t
    /\ loaders' = [loaders EXCEPT ![t].pc = "locked"]
    /\ UNCHANGED <<now, current_gtfs_archive, read_gtfs_runs, read_failures,
                   outside_load_vars>>

\* under the lock: the service date of now, needs_update, and the call of
\* read_gtfs when an update is needed
CheckNeedsUpdate(t) ==
    LET gtfs_service_date == service_date(now) IN
    /\ loaders[t].pc = "locked"
    /\ IF needs_update(current_gtfs_archive, gtfs_service_date)
       THEN /\ loaders' = [loaders EXCEPT ![t].pc = "read_gtfs",
                                          ![t].date = gtfs_service_date]
            /\ read_gtfs_runs' =
                   Put(read_gtfs_runs, gtfs_service_date,
                       IF gtfs_service_date \in DOMAIN read_gtfs_runs
                       THEN read_gtfs_runs[gtfs_service_date] + 1 ELSE 1)
            /\ UNCHANGED write_gtfs_archive_lock
       ELSE /\ loaders' = [loaders EXCEPT ![t].pc = AfterUpdate(t)]
            /\ write_gtfs_archive_lock' = "free"
            /\ UNCHANGED read_gtfs_runs
    /\ UNCHANGED <<now, current_gtfs_archive, read_failures, outside_load_vars>>

\* read_gtfs returns the archive it built, which becomes the current one,
\* or raises; either way the lock is released
ReadGtfs(t, raises) ==
    /\ loaders[t].pc = "read_gtfs"
    /\ write_gtfs_archive_lock' = "free"
    /\ IF raises
       THEN /\ read_failures < MaxFailures
            /\ read_failures' = read_failures + 1
            /\ loaders' = [loaders EXCEPT ![t].pc = IF t = Watcher THEN "dead" ELSE "idle",
                                          ![t].outcome = "raised"]
            /\ UNCHANGED current_gtfs_archive
       ELSE /\ current_gtfs_archive' = loaders[t].date
            /\ loaders' = [loaders EXCEPT ![t].pc = AfterUpdate(t)]
            /\ UNCHANGED read_failures
    /\ UNCHANGED <<now, read_gtfs_runs, outside_load_vars>>

\* get_current_gtfs_archive: return current_gtfs_archive
ReturnArchive(t) ==
    /\ loaders[t].pc = "return"
    /\ loaders' = [loaders EXCEPT ![t].pc = "idle", ![t].outcome = "returned",
                                  ![t].got = current_gtfs_archive]
    /\ UNCHANGED <<now, current_gtfs_archive, write_gtfs_archive_lock, read_gtfs_runs,
                   read_failures, outside_load_vars>>

InitLoad == Init /\ routes = ROUTES_RAPID

NextLoad ==
    \/ \E t \in Threads : GetCurrentGtfsArchive(t)
    \/ UpdateGtfsThread
    \/ \E t \in LoadThreads : AcquireLock(t)
    \/ \E t \in LoadThreads : CheckNeedsUpdate(t)
    \/ \E t \in LoadThreads, raises \in BOOLEAN : ReadGtfs(t, raises)
    \/ \E t \in Threads : ReturnArchive(t)
    \/ Tick

SpecLoad == InitLoad /\ [][NextLoad]_vars

(***************************************************************************)
(* gobble.py: client_thread_sse                                             *)
(***************************************************************************)
\* time.sleep(0.5), in tenths of a second
SLEEP == 5
\* longest sleep followed, in tenths of a second
MaxSlept == 6
\* most connections followed
MaxConnections == 3

\* what can be raised while connecting or processing: the error of a
\* truncated stream, or any other exception
Raisable == {"ChunkedEncodingError", "Exception"}

\* a thread that only handles the truncated stream
HANDLED_chunked_only == {"ChunkedEncodingError"}

\* the except clauses of client_thread_sse
HANDLED == {"ChunkedEncodingError", "Exception"}

\* client = sseclient.SSEClient(connect(routes)), which may raise
SseConnect(raised) ==
    /\ sse_thread.pc = "connect"
    /\ sse_thread.connections < MaxConnections
    /\ sse_thread' =
          IF raised = "none"
          THEN [pc |-> "process_events", client |-> "open", raised |-> "none", slept |-> 0,
                connections |-> sse_thread.connections + 1, received |-> 0]
          ELSE [pc |-> "finally", client |-> "none", raised |-> raised, slept |-> 0,
                connections |-> sse_thread.connections + 1, received |-> 0]
    /\ UNCHANGED <<rt_threads, outside_thread_vars>>

\* process_events handles one more stream event
SseStreamEvent ==
    /\ sse_thread.pc = "process_events"
    /\ sse_thread.received < MaxSeq
    /\ sse_thread' = [sse_thread EXCEPT !.received = @ + 1]
    /\ UNCHANGED <<rt_threads, outside_thread_vars>>

\* process_events ends: the stream is over, or an exception leaves it
SseProcessEventsEnds(raised) ==
    /\ sse_thread.pc = "process_events"
    /\ sse_thread' = [sse_thread EXCEPT !.pc = "finally", !.raised = raised]
    /\ UNCHANGED <<rt_threads, outside_thread_vars>>

\* finally: client.close() if a client was opened, then time.sleep begins
SseFinally ==
    /\ sse_thread.pc = "finally"
    /\ sse_thread' = [sse_thread EXCEPT
                         !.pc = "sleep",
                         !.client = IF @ = "open" THEN "closed" ELSE @,
                         !.slept = 0]
    /\ UNCHANGED <<rt_threads, outside_thread_vars>>

\* a tenth of a second goes by during time.sleep
SseSleeping ==
    /\ sse_thread.pc = "sleep"
    /\ sse_thread.slept < MaxSlept
    /\ sse_thread' = [sse_thread EXCEPT !.slept = @ + 1]
    /\ UNCHANGED <<rt_threads, outside_thread_vars>>

\* time.sleep returns: the loop goes round when the exception was handled or
\* there was none, otherwise the exception leaves the function
SseWake ==
    /\ sse_thread.pc = "sleep"
    /\ sse_thread.slept >= SLEEP
    /\ sse_thread' = [sse_thread EXCEPT
                         !.pc = IF sse_thread.raised \in HANDLED \cup {"none"}
                                THEN "connect" ELSE "returned"]
    /\ UNCHANGED <<rt_threads, outside_thread_vars>>

InitSseThread == Init /\ routes = ROUTES_RAPID

NextSseThread ==
    \/ \E raised \in Raisable \cup {"none"} : SseConnect(raised)
    \/ SseStreamEvent
    \/ \E raised \in Raisable \cup {"none"} : SseProcessEventsEnds(raised)
    \/ SseFinally
    \/ SseSleeping
    \/ SseWake

SpecSseThread == InitSseThread /\ [][NextSseThread]_vars

(***************************************************************************)
(* gobble.py: the threads of GTFS-RT mode                                   *)
(***************************************************************************)
\* a thread goes round its loop once more
Again(t, raised) == [rt_threads EXCEPT ![t].raised = raised, ![t].n = 1 - @]

\* a thread leaves its function
Stops(t, raised) == [rt_threads EXCEPT ![t].pc = "stopped", ![t].raised = raised]

\* fetch_and_broadcast: poll_events yields an event, which is broadcast
FetcherBroadcasts ==
    /\ rt_threads[RtFetcher].pc = "poll"
    /\ rt_threads' = Again(RtFetcher, "none")
    /\ UNCHANGED <<sse_thread, outside_thread_vars>>

\* fetch_and_broadcast: an exception leaves poll_events or the broadcast;
\* nothing in the function handles it
FetcherRaises ==
    /\ rt_threads[RtFetcher].pc = "poll"
    /\ rt_threads' = Stops(RtFetcher, "poll_events")
    /\ UNCHANGED <<sse_thread, outside_thread_vars>>

\* client_thread_gtfs_rt_shared: event_queue.get() returns an event; one of
\* another worker's routes is skipped
SharedGet(t, own_route) ==
    /\ t \in Threads
    /\ rt_threads[t].pc = "get"
    /\ rt_threads' = IF own_route
                     THEN [rt_threads EXCEPT ![t].pc = "process", ![t].raised = "none"]
                     ELSE Again(t, "none")
    /\ UNCHANGED <<sse_thread, outside_thread_vars>>

\* client_thread_gtfs_rt_shared: an exception outside the inner try (the
\* queue, or the route of the event) reaches the except around the loop
SharedRaisesInLoop(t) ==
    /\ t \in Threads
    /\ rt_threads[t].pc = "get"
    /\ rt_threads' = Stops(t, "loop")
    /\ UNCHANGED <<sse_thread, outside_thread_vars>>

\* process_event inside its own try: returns, or raises and is logged
ThreadProcessEvent(t, raises) ==
    /\ t \in Threads \cup {RtPoller}
    /\ rt_threads[t].pc = "process"
    /\ rt_threads' = [rt_threads EXCEPT
                         ![t].pc = IF t = RtPoller THEN "poll" ELSE "get",
                         ![t].raised = IF raises THEN "process_event" ELSE "none",
                         ![t].n = 1 - @]
    /\ UNCHANGED <<sse_thread, outside_thread_vars>>

\* client_thread_gtfs_rt: create_gtfs_rt_client returns or raises
PollerCreates(raises) ==
    /\ rt_threads[RtPoller].pc = "create"
    /\ rt_threads' = IF raises THEN Stops(RtPoller, "create_gtfs_rt_client")
                     ELSE [rt_threads EXCEPT ![RtPoller].pc = "poll"]
    /\ UNCHANGED <<sse_thread, outside_thread_vars>>

\* client_thread_gtfs_rt: poll_events yields the next event, or raises, which
\* reaches the except around the for loop and then the finally
PollerNext(raises) ==
    /\ rt_threads[RtPoller].pc = "poll"
    /\ rt_threads' = IF raises THEN Stops(RtPoller, "poll_events")
                     ELSE [rt_threads EXCEPT ![RtPoller].pc = "process",
                                             ![RtPoller].raised = "none"]
    /\ UNCHANGED <<sse_thread, outside_thread_vars>>

InitRtThreads == Init /\ routes = ROUTES_RAPID

NextRtThreads ==
    \/ FetcherBroadcasts
    \/ FetcherRaises
    \/ \E t \in Threads, own_route \in BOOLEAN : SharedGet(t, own_route)
    \/ \E t \in Threads : SharedRaisesInLoop(t)
    \/ \E t \in Threads \cup {RtPoller}, raises \in BOOLEAN : ThreadProcessEvent(t, raises)
    \/ \E raises \in BOOLEAN : PollerCreates(raises)
    \/ \E raises \in BOOLEAN : PollerNext(raises)

SpecRtThreads == InitRtThreads /\ [][NextRtThreads]_vars

(***************************************************************************)
(* util.py: service_date on datetimes, get_current_service_date            *)
(***************************************************************************)
\* the days of the datetimes handed to service_date
MaxDay == 2

\* the zone of util.EASTERN_TIME and its offset from UTC in hours (standard
\* time)
EASTERN_TIME == "US/Eastern"
EASTERN_UTC_OFFSET == 0 - 5

\* the datetimes handed to service_date: the fields of a Python datetime,
\* naive, in local time or in UTC, at the first and at the last second of an
\* hour
Datetimes ==
    {ts \in [day : 1..MaxDay, hour : 0..23, minute : {0, 59}, second : {0, 59},
             tzinfo : {"naive", EASTERN_TIME, "UTC"}] : ts.minute = ts.second}

\* ts.replace(tzinfo=EASTERN_TIME): the zone is set, the fields stay
replace_tzinfo(ts, tzinfo) == [ts EXCEPT !.tzinfo = tzinfo]

\* util.service_date on a datetime
datetime_service_date(ts) ==
    LET replaced == replace_tzinfo(ts, EASTERN_TIME)
    IN service_date(24 * replaced.day + replaced.hour)

\* a caller computes service_date(ts)
ServiceDateCall(ts) ==
    /\ date_call' = [op |-> "service_date", ts |-> ts,
                     result |-> datetime_service_date(ts), n |-> 1 - date_call.n]
    /\ UNCHANGED outside_date_vars

\* a caller calls get_current_service_date()
GetCurrentServiceDateCall ==
    /\ date_call' = [op |-> "get_current_service_date", at |-> now,
                     result |-> CurrentServiceDate, n |-> 1 - date_call.n]
    /\ CacheAfterCall
    /\ UNCHANGED <<routes, now, route_states, files, current_gtfs_archive, latest_row,
                   pending, pc, event, last, store_vars, poll_vars, fetcher_vars,
                   main_vars, disk_vars, load_vars, thread_vars, gtfs_vars, order_vars>>

InitDate == Init /\ routes = ROUTES_RAPID

NextDate ==
    \/ \E ts \in Datetimes : ServiceDateCall(ts)
    \/ GetCurrentServiceDateCall
    \/ Tick
    \/ TickDay

SpecDate == InitDate /\ [][NextDate]_vars

\* the timestamps of updates: SSE updates carry the local offset, GTFS-RT
\* updates are in UTC
UpdateDatetimes == {ts \in Datetimes : ts.tzinfo # "naive"}

\* Series.dt.tz_convert(EASTERN_TIME): the same instant with local fields
tz_convert(ts) ==
    IF ts.tzinfo = "UTC"
    THEN LET hours == 24 * ts.day + ts.hour + EASTERN_UTC_OFFSET
         IN [ts EXCEPT !.day = hours \div 24, !.hour = hours % 24,
                       !.tzinfo = EASTERN_TIME]
    ELSE ts

\* process_event builds the row of an update stamped ts, enrich_event
\* converts its event_time and write_event derives the shard from it: the
\* service_date column, and the date in the shard's Year=/Month=/Day=
WriteEventDates(ts) ==
    /\ date_call' = [op |-> "write_event", ts |-> ts,
                     service_date |-> datetime_service_date(ts),
                     shard_date |-> datetime_service_date(tz_convert(ts)),
                     n |-> 1 - date_call.n]
    /\ UNCHANGED outside_date_vars

InitRowDate == Init /\ routes = ROUTES_RAPID

NextRowDate == \E ts \in UpdateDatetimes : WriteEventDates(ts)

SpecRowDate == InitRowDate /\ [][NextRowDate]_vars

(***************************************************************************)
(* gtfs.py: add_gtfs_headways                                               *)
(***************************************************************************)
\* the latest arrival_time of a schedule row, and the most rows of a schedule
MaxArrival == 3
MaxRows == 3

\* the stop times of one route and direction, as stop_times.txt lists them:
\* the triple (route_id, direction_id, stop_id) of a row varies in its stop
StopTimeRows == [stop_id : StopIds, arrival_time : 1..MaxArrival]
Schedules == UNION {[1..n -> StopTimeRows] : n \in 0..MaxRows}

\* the events enriched: a stop and the time of day of the event,
\* event_time - pd.Timestamp(service_date).tz_localize(EASTERN_TIME)
HeadwayEvents == [stop_id : StopIds, arrival_time : 0..(MaxArrival + 1)]

\* gtfs_stops.sort_values(by="arrival_time")
sort_values(all_stops) ==
    SortSeq(all_stops, LAMBDA x, y : x.arrival_time < y.arrival_time)

\* timedelta.dt.seconds: the part of a time difference below one day
dt_seconds(d) == d % 24

\* groupby(RTE_DIR_STOP).arrival_time.diff().dt.seconds for row i of the
\* sorted rows: undefined for the first row of a group
scheduled_headway(gtfs_stops, i) ==
    LET before == {j \in 1..(i - 1) : gtfs_stops[j].stop_id = gtfs_stops[i].stop_id}
        j == CHOOSE j \in before : \A k \in before : k <= j
    IN IF before = {} THEN <<>>
       ELSE <<dt_seconds(gtfs_stops[i].arrival_time - gtfs_stops[j].arrival_time)>>

\* an as-of join that leaves out the row whose arrival_time is the event's
merge_asof_before(e, gtfs_stops) ==
    LET matches == {i \in 1..Len(gtfs_stops) :
                       /\ gtfs_stops[i].stop_id = e.stop_id
                       /\ gtfs_stops[i].arrival_time < e.arrival_time}
        i == CHOOSE i \in matches : \A k \in matches : k <= i
    IN IF matches = {} THEN <<>> ELSE scheduled_headway(gtfs_stops, i)

\* pd.merge_asof(event_df, gtfs_stops, on="arrival_time", direction="backward",
\* by=RTE_DIR_STOP): the scheduled_headway of the last row of the group that
\* is not after the event
merge_asof(e, gtfs_stops) ==
    LET matches == {i \in 1..Len(gtfs_stops) :
                       /\ gtfs_stops[i].stop_id = e.stop_id
                       /\ gtfs_stops[i].arrival_time <= e.arrival_time}
        i == CHOOSE i \in matches : \A k \in matches : k <= i
    IN IF matches = {} THEN <<>> ELSE scheduled_headway(gtfs_stops, i)

\* add_gtfs_headways: the scheduled_headway of the augmented event
add_gtfs_headways(e, all_stops) == merge_asof(e, sort_values(all_stops))

\* enrich_event calls add_gtfs_headways for one event; one call is followed
AddGtfsHeadways(e, all_stops) ==
    /\ gtfs_call.op = "none"
    /\ gtfs_call' = [op |-> "add_gtfs_headways", event |-> e, all_stops |-> all_stops,
                     scheduled_headway |-> add_gtfs_headways(e, all_stops),
                     n |-> 1 - gtfs_call.n]
    /\ UNCHANGED outside_gtfs_vars

InitHeadway == Init /\ routes = ROUTES_RAPID

NextHeadway == \E e \in HeadwayEvents, all_stops \in Schedules : AddGtfsHeadways(e, all_stops)

SpecHeadway == InitHeadway /\ [][NextHeadway]_vars

(***************************************************************************)
(* gtfs.py: get_gtfs_archive                                                *)
(***************************************************************************)
\* the archive directories that can exist under MAIN_DIR are named
\* 1..MaxArchives; like dateints of equal length, the names sort as numbers
MaxArchives == 2

Max(S) == CHOOSE x \in S : \A y \in S : y <= x

\* what get_gtfs_archive finds: the local registry file, the registry
\* download, the archive the registry names for the date, the directories
\* under MAIN_DIR and those of them that can be listed, and the download of
\* the archive
ArchiveWorlds ==
    {w \in [registry : {"missing", "unreadable", "no_match", "match", "match_refetch"},
            listing : {"unreachable", "unparsable", "no_match", "match"},
            archive_name : 1..MaxArchives,
            dirs : SUBSET (1..MaxArchives),
            accessible : SUBSET (1..MaxArchives),
            unpack : {"ok", "fails", "fails_midway"}] :
        w.accessible \subseteq w.dirs}

\* the directories after a failed unpack_archive, which may have begun to
\* extract into the new directory
DirsAfter(w, failed) ==
    IF failed = "archive" /\ w.unpack = "fails_midway"
    THEN [dirs |-> w.dirs \cup {w.archive_name},
          accessible |-> w.accessible \cup {w.archive_name}]
    ELSE [dirs |-> w.dirs, accessible |-> w.accessible]

\* a fallback that does not try whether the directory can be listed
find_most_recent_gtfs_archive_untested(dirs, accessible) ==
    IF dirs = {} THEN <<>> ELSE <<Max(dirs)>>

\* _find_most_recent_gtfs_archive: the first directory, by name in descending
\* order, that can be listed; None when there is none
find_most_recent_gtfs_archive(dirs, accessible) ==
    IF accessible = {} THEN <<>> ELSE <<Max(accessible)>>

\* the try block of get_gtfs_archive: the directory returned, or what failed
try_get_gtfs_archive(w) ==
    LET reads == w.registry \notin {"missing", "unreadable"}
        local_match == w.registry \in {"match", "match_refetch"}
        should_refetch == w.registry \in {"missing", "match_refetch"}
        downloads == ~local_match \/ should_refetch
        matches == IF downloads THEN w.listing = "match" ELSE local_match
    IN
    IF w.registry = "unreadable" THEN [failed |-> "registry"]
    ELSE IF downloads /\ w.listing \in {"unreachable", "unparsable"}
    THEN [failed |-> "listing"]
    ELSE IF ~matches THEN [failed |-> "no_match"]
    ELSE IF w.archive_name \in w.dirs THEN [failed |-> "none", path |-> w.archive_name]
    ELSE IF w.unpack = "ok" THEN [failed |-> "none", path |-> w.archive_name]
    ELSE [failed |-> "archive"]

\* get_gtfs_archive: both except clauses fall back on the most recent
\* directory and raise when there is none
get_gtfs_archive(w) ==
    LET tried == try_get_gtfs_archive(w)
        after == DirsAfter(w, tried.failed)
        fallback_archive == find_most_recent_gtfs_archive(after.dirs, after.accessible)
    IN
    IF tried.failed = "none"
    THEN [outcome |-> "returned", failed |-> "none", path |-> tried.path,
          accessible |-> after.accessible]
    ELSE IF fallback_archive # <<>>
    THEN [outcome |-> "returned", failed |-> tried.failed, path |-> fallback_archive[1],
          accessible |-> after.accessible]
    ELSE [outcome |-> "raised", failed |-> tried.failed, path |-> 0,
          accessible |-> after.accessible]

\* read_gtfs calls get_gtfs_archive; one call is followed
GetGtfsArchive(w) ==
    /\ gtfs_call.op = "none"
    /\ gtfs_call' = [op |-> "get_gtfs_archive", world |-> w, result |-> get_gtfs_archive(w),
                     n |-> 1 - gtfs_call.n]
    /\ UNCHANGED outside_gtfs_vars

InitArchive == Init /\ routes = ROUTES_RAPID

NextArchive == \E w \in ArchiveWorlds : GetGtfsArchive(w)

SpecArchive == InitArchive /\ [][NextArchive]_vars

(***************************************************************************)
(* Properties of process_event.  A step in which pc goes from "process" to  *)
(* "get" is one call of process_event on the update held in event; the      *)
(* unprimed variables are the state the call starts in.                     *)
(***************************************************************************)
ProcessStep == pc = "process" /\ pc' = "get"

EventKey == <<event.route_id, event.trip_id>>

\* the trip of the held update has a stored state
HasStored ==
    /\ event.route_id \in DOMAIN route_states
    /\ event.trip_id \in DOMAIN route_states[event.route_id].trips

StoredState == route_states[event.route_id].trips[event.trip_id]

\* the same, after the call
HasStoredAfter ==
    /\ event.route_id \in DOMAIN route_states'
    /\ event.trip_id \in DOMAIN route_states'[event.route_id].trips

StoredStateAfter == route_states'[event.route_id].trips[event.trip_id]

\* the row the call wrote (when last'.wrote)
WrittenRow == latest_row'[EventKey]

\* the update is a departure: the stored stop differs and the stored stop
\* sequence is lower
Departure ==
    /\ event.stop_id # None
    /\ HasStored
    /\ StoredState.stop_id # event.stop_id
    /\ StoredState.stop_sequence < event.current_stop_sequence

\* the update is an arrival: stopped, after a stored departure
Arrival ==
    /\ event.stop_id # None
    /\ HasStored
    /\ event.current_status = "STOPPED_AT"
    /\ StoredState.event_type = "DEP"

\* the stop filter lets the stop through for the route
FilterAllows(route_id, stop_id) ==
    \/ route_id \in ROUTES_CR
    \/ route_id \in ROUTES_RAPID
    \/ (route_id \in DOMAIN BUS_STOPS /\ stop_id \in BUS_STOPS[route_id])

\* C1: the row written for an update classified as a departure carries the
\* stored previous stop_id, not the update's stop_id, also when the update
\* qualifies as an arrival too.
C1_DepartureRowHasPreviousStop ==
    [][(ProcessStep /\ Departure /\ last'.wrote)
        => (WrittenRow.stop_id = StoredState.stop_id
            /\ WrittenRow.stop_id # event.stop_id)]_vars

\* a departure that is an arrival too has just written its row
C1_Witness ==
    /\ last.outcome = "returned"
    /\ last.is_dep /\ last.is_arr
    /\ last.wrote

\* C2 (as claimed): after process_event has handled an update that has a
\* stop_id, the stored state of the trip has the update's own stop_id,
\* current_stop_sequence and updated_at, also after a departure.
C2_StoredStateIsTheUpdate ==
    [][(ProcessStep /\ event.stop_id # None /\ last'.outcome = "returned")
        => (/\ HasStoredAfter
            /\ StoredStateAfter.stop_id = event.stop_id
            /\ StoredStateAfter.stop_sequence = event.current_stop_sequence
            /\ StoredStateAfter.updated_at = event.updated_at)]_vars

\* C3 (as claimed): for an update classified as a departure, the event_type
\* written in the row and stored in the trip state is DEP, whatever the
\* update's current_status.
C3_DepartureIsDEP ==
    [][(ProcessStep /\ Departure /\ last'.outcome = "returned")
        => (/\ last'.wrote => WrittenRow.event_type = "DEP"
            /\ HasStoredAfter
            /\ StoredStateAfter.event_type = "DEP")]_vars

\* the case of C4: a STOPPED_AT update after a stored DEP, not a departure,
\* whose own stop the filter lets through
C4_Case ==
    /\ Arrival
    /\ ~Departure
    /\ FilterAllows(event.route_id, event.stop_id)

C4_Row ==
    /\ last'.wrote
    /\ WrittenRow.event_type = "ARR"
    /\ WrittenRow.stop_id = event.stop_id
    /\ WrittenRow.trip_id = event.trip_id
    /\ WrittenRow.event_time = event.updated_at

C5_FirstObservationWritesNothing ==
    [][(ProcessStep /\ event.stop_id # None /\ ~HasStored)
        => (/\ ~last'.wrote
            /\ latest_row' = latest_row
            /\ last'.outcome = "returned"
            /\ HasStoredAfter)]_vars

\* a first observation has just been processed
C5_Witness ==
    /\ last.outcome = "returned"
    /\ ~last.seen
    /\ ~last.wrote
    /\ route_states # <<>>

\* C6: every row written is of a commuter-rail or rapid-transit route, or its
\* stop_id is in BUS_STOPS[route_id]; a route with no BUS_STOPS entry that is
\* neither commuter rail nor rapid transit has no row.
C6_RowsPassStopFilter ==
    \A k \in DOMAIN latest_row :
        /\ FilterAllows(latest_row[k].route_id, latest_row[k].stop_id)
        /\ latest_row[k].route_id \notin UnlistedRoutes

\* a bus departure has just written a row for the monitored stop it left
C6_Witness ==
    /\ routes = ROUTES_BUS
    /\ last.is_dep
    /\ last.wrote
    /\ \E k \in DOMAIN latest_row : latest_row[k].stop_id \in BUS_STOPS[latest_row[k].route_id]

\* what process_event does with an update that has no stop_id: nothing
C7_NoStopFrame ==
    /\ UNCHANGED <<route_states, files, latest_row, current_gtfs_archive,
                   cache_hour, service_date_cache>>
    /\ last'.set_calls = 0
    /\ last'.gtfs_calls = 0
    /\ ~last'.wrote

\* what process_event does to the store with an update that has a stop_id:
\* one set_trip_state, after which the trip's stored state is of this update
C7_StateUpdatedOnce ==
    /\ last'.set_calls = 1
    /\ HasStoredAfter
    /\ StoredStateAfter.stop_sequence = event.current_stop_sequence
    /\ StoredStateAfter.updated_at = event.updated_at
    /\ event.route_id \in DOMAIN files'
    /\ files'[event.route_id] = write_trips_state_file(route_states'[event.route_id])

C8_RaiseKeepsStateAndUpdates ==
    [][(ProcessStep /\ last'.outcome = "raised" /\ last'.fault = "enrich_or_write")
        => (/\ UNCHANGED <<route_states, files>>
            /\ pc' = "get"
            /\ pending' = IF pending > 0 THEN pending - 1 ELSE 0)]_vars

\* C9 (as claimed): the event_time values of the rows written for one
\* (route_id, trip_id) never decrease, whatever the order of the updated_at
\* values of the updates.
C9_EventTimeNonDecreasing ==
    [][(ProcessStep /\ last'.wrote /\ EventKey \in DOMAIN latest_row)
        => WrittenRow.event_time >= latest_row[EventKey].event_time]_vars

\* C10 (as claimed): an update whose updated_at equals the updated_at of the
\* stored state of its trip produces no row.
C10_SameTimestampSuppressed ==
    [][(ProcessStep /\ event.stop_id # None /\ HasStored
            /\ event.updated_at = StoredState.updated_at)
        => ~last'.wrote]_vars

(***************************************************************************)
(* Properties of the rows, of the trip-state store and of the feed clients  *)
(***************************************************************************)
\* C11: every row written has event_type ARR or DEP and a stop_id that is
\* neither null nor empty.
C11_RowsHaveTypeAndStop ==
    \A k \in DOMAIN latest_row :
        /\ latest_row[k].event_type \in {"ARR", "DEP"}
        /\ latest_row[k].stop_id \notin {None, ""}

\* a departure of a vehicle reported INCOMING_AT has just written its row
C11_Witness ==
    /\ last.wrote
    /\ last.is_dep /\ ~last.is_arr
    /\ \E k \in DOMAIN latest_row :
          latest_row[k].event_type = "ARR" /\ latest_row[k].stop_id \in StopIds

\* a step that is a call on the store
StoreStep(op) == call'.n # call.n /\ call'.op = op

\* the route has a stored service_date: in memory, or, for a route not used
\* since the start of the process, in its state file
HasStoredServiceDate(route_id) ==
    \/ route_id \in DOMAIN route_states
    \/ read_trips_state_file(route_id) # <<>>

StoredServiceDate(route_id) ==
    IF route_id \in DOMAIN route_states
    THEN route_states[route_id].service_date
    ELSE read_trips_state_file(route_id)[1].service_date

\* the route holds exactly trip_id -> trip_state under the current service
\* date, in memory and in its state file
HoldsOnly(route_id, trip_id, trip_state) ==
    /\ route_id \in DOMAIN route_states'
    /\ route_states'[route_id] =
          [service_date |-> service_date(now), trips |-> [t \in {trip_id} |-> trip_state]]
    /\ route_id \in DOMAIN files'
    /\ files'[route_id] = write_trips_state_file(route_states'[route_id])

\* C12 (as claimed): when set_trip_state(trip, s) is called while the route's
\* stored service_date is earlier than the current service date, afterwards
\* the route holds only trip -> s, its service_date is the current service
\* date, and the state file holds exactly that.
C12_OvernightPurge ==
    [][(/\ StoreStep("set")
        /\ call'.outcome = "returned"
        /\ HasStoredServiceDate(call'.route_id)
        /\ StoredServiceDate(call'.route_id) < service_date(now))
        => HoldsOnly(call'.route_id, call'.trip_id, call'.trip_state)]_vars

\* C13: right after any set_trip_state call, every stored entry other than
\* the one just inserted has updated_at no older than 5 hours before the
\* time of the call, in memory and in the state file.
C13_OthersAreFresh ==
    [][(StoreStep("set") /\ call'.outcome = "returned")
        => LET trips == route_states'[call'.route_id].trips
               trip_states == files'[call'.route_id].trip_states
           IN /\ \A t \in (DOMAIN trips) \ {call'.trip_id} :
                    trips[t].updated_at >= now - MAX_TRIP_AGE
              /\ \A t \in (DOMAIN trip_states) \ {call'.trip_id} :
                    datetime_fromisoformat(trip_states[t].updated_at) >= now - MAX_TRIP_AGE]_vars

\* a set_trip_state call has just returned and left another trip stored
C13_Witness ==
    /\ call.op = "set"
    /\ call.outcome = "returned"
    /\ \E t \in DOMAIN route_states[call.route_id].trips :
          /\ t # call.trip_id
          /\ t \in DOMAIN files[call.route_id].trip_states

\* C14: get_trip_state is a pure read: it runs no eviction, writes no file,
\* changes neither the stored trips nor the service_date, and what the caller
\* does to the dict it returned does not change the stored state.
C14_GetIsPureRead ==
    [][(StoreStep("get") \/ StoreStep("modify"))
        => UNCHANGED <<route_states, files, cache_hour, service_date_cache>>]_vars

\* the caller has just changed the dict it was handed, and the stored state
\* of that trip is not what the caller holds
C14_Witness ==
    /\ call.op = "modify"
    /\ held # <<>>
    /\ held[1].route_id \in DOMAIN route_states
    /\ held[1].trip_id \in DOMAIN route_states[held[1].route_id].trips
    /\ route_states[held[1].route_id].trips[held[1].trip_id] # held[1].value

\* the route's state file is what set_trip_state wrote for the state in
\* memory, the service date has not moved on and no entry is older than 5 hours
C15_Case(route_id) ==
    /\ route_id \in DOMAIN files
    /\ files[route_id] = write_trips_state_file(route_states[route_id])
    /\ route_states[route_id].service_date = service_date(now)
    /\ \A t \in DOMAIN route_states[route_id].trips :
          route_states[route_id].trips[t].updated_at >= now - MAX_TRIP_AGE

C16_DamagedFileStartsEmpty ==
    [][(/\ StoreStep("set")
        /\ call'.route_id \notin DOMAIN route_states
        /\ call'.route_id \in DOMAIN files
        /\ "damage" \in DOMAIN files[call'.route_id])
        => (/\ call'.outcome = "returned"
            /\ HoldsOnly(call'.route_id, call'.trip_id, call'.trip_state))]_vars

\* a step that is one turn of poll_events
PollStep == polls' # polls

\* the entities of a feed that are of a polled route and convert to an event
Converted(entities) ==
    {i \in 1..Len(entities) :
        /\ entities[i].route_id \in all_routes
        /\ convert_vehicle_position_to_event(entities[i]) # <<>>}

EventOf(entities, i) == convert_vehicle_position_to_event(entities[i])[1]

ConvertedTripIds(entities) ==
    {EventOf(entities, i).trip_id : i \in Converted(entities)}

\* the cached entry of the trip of entity i when its turn comes: the event of
\* the latest earlier entity of the same trip, else what the cache held when
\* the poll began; <<>> when there is none
CachedEntry(entities, i) ==
    LET trip_id == EventOf(entities, i).trip_id
        earlier == {j \in Converted(entities) :
                        j < i /\ EventOf(entities, j).trip_id = trip_id}
    IN IF earlier # {}
       THEN <<EventOf(entities, CHOOSE j \in earlier : \A k \in earlier : k <= j)>>
       ELSE IF trip_id \in DOMAIN previous_positions
            THEN <<previous_positions[trip_id]>>
            ELSE <<>>

\* one of the five compared fields differs
Differs(cached, new_event) ==
    \/ cached.stop_id # new_event.stop_id
    \/ cached.current_status # new_event.current_status
    \/ cached.current_stop_sequence # new_event.current_stop_sequence
    \/ cached.occupancy_status # new_event.occupancy_status
    \/ cached.carriages # new_event.carriages

\* the events a poll has to yield, from entity i on
RECURSIVE ToYield(_, _)
ToYield(entities, i) ==
    IF i > Len(entities) THEN <<>>
    ELSE LET rest == ToYield(entities, i + 1)
         IN IF /\ i \in Converted(entities)
               /\ \/ CachedEntry(entities, i) = <<>>
                  \/ Differs(CachedEntry(entities, i)[1], EventOf(entities, i))
            THEN <<EventOf(entities, i)>> \o rest
            ELSE rest

\* C17 (as claimed): poll_events yields an update for a trip exactly when the
\* trip has no cached entry or one of stop, current_status,
\* current_stop_sequence, occupancy_status, carriages differs from the trip's
\* cached entry; hence a poll whose content is identical to the content of
\* the poll before yields nothing.
C17_YieldsExactlyChanges ==
    [][(PollStep /\ fetched')
        => (/\ yielded' = ToYield(feed'[1], 1)
            /\ (feed # <<>> /\ feed' = feed) => yielded' = <<>>)]_vars

\* C18: after each successfully fetched poll, the keys of the dedup cache are
\* exactly the trip ids converted from that poll for the polled routes, so a
\* trip that was not cached when the poll began is yielded, also when it had
\* been cached before and is back unchanged.
C18_CacheKeysAreThePoll ==
    [][(PollStep /\ fetched')
        => (/\ DOMAIN previous_positions' = ConvertedTripIds(feed'[1])
            /\ \A trip_id \in ConvertedTripIds(feed'[1]) \ DOMAIN previous_positions :
                  \E k \in 1..Len(yielded') : yielded'[k].trip_id = trip_id)]_vars

\* a trip that an earlier poll had removed from the cache is in the latest
\* poll again, was yielded and is cached
C18_Witness ==
    /\ fetched
    /\ \E trip_id \in back :
          /\ trip_id \in DOMAIN previous_positions
          /\ \E k \in 1..Len(yielded) : yielded[k].trip_id = trip_id

\* a step in which the fetcher broadcasts one event
BroadcastStep == broadcast'.n # broadcast.n /\ broadcast'.op = "broadcast"

\* C19: in shared GTFS-RT mode no subscriber queue ever holds more updates
\* than its capacity; when a subscriber's queue is full the fetcher drops the
\* new update for that subscriber only, keeps the updates already queued, and
\* still delivers the update to the other subscribers, whose queues get it at
\* the end.
C19_FullQueueDropsNewest ==
    [][/\ \A i \in 1..Len(subscribers') : Len(subscribers'[i]) <= QueueMaxsize
       /\ BroadcastStep =>
            /\ Len(subscribers') = Len(subscribers)
            /\ \A i \in 1..Len(subscribers) :
                  subscribers'[i] =
                      IF Len(subscribers[i]) = QueueMaxsize
                      THEN subscribers[i]
                      ELSE Append(subscribers[i], broadcast'.event)]_vars

\* the latest broadcast found the first queue full and was delivered to the
\* second only
C19_Witness ==
    /\ broadcast.op = "broadcast"
    /\ broadcast.dropped = {1}
    /\ Len(subscribers) = 2
    /\ Len(subscribers[1]) = QueueMaxsize
    /\ subscribers[1][QueueMaxsize] # broadcast.event
    /\ Len(subscribers[2]) > 0
    /\ subscribers[2][Len(subscribers[2])] = broadcast.event

\* C20: the route sets handed to the workers (rapid, commuter rail and the
\* bus chunks) are pairwise disjoint, every bus chunk has at most 10 routes
\* and, once main has started every worker, the chunks together are
\* ROUTES_BUS; so an update is passed to process_event by at most one worker,
\* and a route, hence its trip-state file, belongs to at most one worker.
C20_RoutesArePartitioned ==
    /\ \A v, w \in 1..Len(workers) : v # w => workers[v] \cap workers[w] = {}
    /\ \A w \in 3..Len(workers) : Cardinality(workers[w]) <= CHUNK
    /\ MainDone => UNION {workers[w] : w \in 3..Len(workers)} = CATALOG_ROUTES_BUS
    /\ dispatch.op = "dispatch" => Cardinality(dispatch.by) <= 1
    /\ \A route_id \in CATALOG_ROUTES_RAPID \cup CATALOG_ROUTES_CR \cup CATALOG_ROUTES_BUS :
          Cardinality({w \in 1..Len(workers) : route_id \in workers[w]}) <= 1

\* every worker runs, the last chunk is the short one and the latest update
\* was one of its routes
C20_Witness ==
    /\ MainDone
    /\ Len(workers) = 7
    /\ Cardinality(workers[3]) = CHUNK
    /\ Cardinality(workers[7]) = 4
    /\ dispatch.op = "dispatch"
    /\ dispatch.route_id \in workers[7]
    /\ dispatch.by = {7}

(***************************************************************************)
(* Properties of disk.write_event, of the archive loader and of the threads *)
(***************************************************************************)
\* no thread is inside write_event
AllIdle == \A t \in Threads : writers[t] = Idle

\* the rows of the events of a shard, in call order
RowsOf(path) == [i \in 1..Len(disk_log[path]) |-> writerow(disk_log[path][i])]

\* the number of header lines of a shard file
Headers(path) ==
    Cardinality({i \in 1..Len(data_dir[path]) : data_dir[path][i] = writeheader})

\* C21: when threads call write_event for the same shard at the same time,
\* including when the file does not exist yet, the file ends up with exactly
\* one header line and with every row intact: every other line is the row of
\* one of the calls, and there is one line per call.
C21_ConcurrentWritesOneHeader ==
    AllIdle =>
        \A path \in DOMAIN data_dir :
            /\ Headers(path) = 1
            /\ Len(data_dir[path]) = 1 + Len(disk_log[path])
            /\ \A i \in 1..Len(data_dir[path]) :
                  \/ data_dir[path][i] = writeheader
                  \/ \E k \in 1..Len(disk_log[path]) :
                        data_dir[path][i] = writerow(disk_log[path][k])

\* C22: after any sequence of write_event calls made one at a time, every
\* shard file is one header line followed by one line per event written to
\* that shard, in the order of the calls, and every shard written to has a
\* file.
C22_HeaderThenRowsInOrder ==
    (AllIdle /\ ~overlap) =>
        /\ DOMAIN data_dir = DOMAIN disk_log
        /\ \A path \in DOMAIN data_dir : data_dir[path] = <<writeheader>> \o RowsOf(path)

\* three calls one at a time: two different events in one shard, one in
\* another
C22_Witness ==
    /\ AllIdle
    /\ ~overlap
    /\ Cardinality(DOMAIN data_dir) = 2
    /\ \E path \in DOMAIN data_dir :
          /\ Len(data_dir[path]) = 3
          /\ data_dir[path][2] # data_dir[path][3]

\* the columns the schema of the shards names
SchemaColumns ==
    <<"service_date", "route_id", "trip_id", "direction_id", "stop_id", "stop_sequence",
      "vehicle_id", "vehicle_label", "event_type", "event_time", "scheduled_headway",
      "scheduled_tt", "vehicle_consist", "occupancy_status", "occupancy_percentage">>

\* C30: every line written to a shard has the 15 columns of the schema in
\* their order: the header names them, and the row of an event holds the
\* event's consist in the column vehicle_consist.
C30_RowsHaveSchemaColumns ==
    \A path \in DOMAIN data_dir :
        \A i \in 1..Len(data_dir[path]) :
            /\ Len(data_dir[path][i]) = Len(SchemaColumns)
            /\ \/ data_dir[path][i] = SchemaColumns
               \/ \E k \in 1..Len(disk_log[path]) :
                     /\ data_dir[path][i] = writerow(disk_log[path][k])
                     /\ \A c \in 1..Len(SchemaColumns) :
                           SchemaColumns[c] = "vehicle_consist" =>
                               data_dir[path][i][c] = disk_log[path][k].vehicle_consist

\* at most one thread is reading an archive, and it holds the lock
LoadsAreSerialised ==
    \A t \in LoadThreads :
        loaders[t].pc \in {"locked", "read_gtfs"} => write_gtfs_archive_lock = t

\* read_gtfs ran once for every date it ran for, and for the current one
ReadOncePerDate ==
    /\ \A d \in DOMAIN read_gtfs_runs : read_gtfs_runs[d] = 1
    /\ current_gtfs_archive # NoDate => current_gtfs_archive \in DOMAIN read_gtfs_runs

\* every get_current_gtfs_archive call made has returned an archive that
\* read_gtfs built to the end
CallersGotArchive ==
    \A t \in Threads :
        /\ loaders[t].outcome # "raised"
        /\ loaders[t].outcome = "returned" =>
              loaders[t].got # NoDate /\ loaders[t].got \in DOMAIN read_gtfs_runs

C25_RaiseDropsOnlyThatUpdate ==
    [][(ProcessStep /\ last'.outcome = "raised")
        => (/\ pc' = "get"
            /\ pending > 0 => pending' = pending - 1)]_vars

\* C24: client_thread_sse never returns; when the stream ends or an
\* exception is raised while connecting or processing, the thread goes to its
\* finally block, where it closes the client if one was opened and then
\* sleeps; it leaves the sleep after at least 0.5 s, with no client left
\* open, and only to open a new connection.
C24_SseThreadReconnects ==
    [][/\ sse_thread'.pc # "returned"
       /\ (sse_thread.pc = "connect" /\ sse_thread'.pc # "process_events")
             => sse_thread'.pc = "finally"
       /\ (sse_thread.pc = "process_events" /\ sse_thread'.pc # "process_events")
             => sse_thread'.pc = "finally"
       /\ sse_thread.pc = "finally"
             => /\ sse_thread'.pc = "sleep"
                /\ sse_thread.client = "open" => sse_thread'.client = "closed"
       /\ (sse_thread.pc = "sleep" /\ sse_thread'.pc # "sleep")
             => /\ sse_thread'.pc = "connect"
                /\ sse_thread.slept >= SLEEP
                /\ sse_thread.client # "open"]_sse_thread

\* after an exception other than a truncated stream was raised while
\* processing, the client was closed, the thread slept and is about to
\* connect for the second time
C24_Witness ==
    /\ sse_thread.pc = "connect"
    /\ sse_thread.connections = 1
    /\ sse_thread.raised = "Exception"
    /\ sse_thread.client = "closed"
    /\ sse_thread.slept >= SLEEP

\* C26: no feed thread stops for good after a failure: neither a worker nor
\* the shared GTFS-RT fetcher ever leaves its function.
C26_NoThreadStops ==
    \A t \in RtThreads : rt_threads[t].pc # "stopped"

\* the seconds from 00:00:00 of day 0 to the fields of a datetime
SecondsOf(ts) == ((ts.day * 24 + ts.hour) * 60 + ts.minute) * 60 + ts.second

\* the day a number of seconds falls in when days begin at 03:00:00
DayFromThree(seconds) == (seconds - 3 * 3600) \div (24 * 3600)

\* C27: service_date(t) is the calendar date of t when the hour of t is 3 to
\* 23 and the calendar date of t minus 24 hours when the hour of t is 0 to 2;
\* the boundary is exactly 03:00:00, so the result is the day that t falls in
\* when days are counted from 03:00:00.
C27_ServiceDateBoundary ==
    date_call.op = "service_date" =>
        /\ date_call.ts.hour \in 3..23 => date_call.result = date_call.ts.day
        /\ date_call.ts.hour \in 0..2 => date_call.result = date_call.ts.day - 1
        /\ date_call.result = DayFromThree(SecondsOf(date_call.ts))

\* service_date was called with 02:59:59 of day 2 and answered day 1
C27_Witness ==
    /\ date_call.op = "service_date"
    /\ date_call.ts.day = 2
    /\ date_call.ts.hour = 2
    /\ date_call.ts.minute = 59
    /\ date_call.ts.second = 59
    /\ date_call.result = 1

\* C28: for a timezone-aware timestamp expressed in UTC, service_date
\* returns the service date of that instant in local time: the 03:00
\* boundary is applied to the local time of the instant.
C28_UtcUsesLocalTime ==
    (date_call.op = "service_date" /\ date_call.ts.tzinfo = "UTC") =>
        date_call.result =
            DayFromThree(SecondsOf(date_call.ts) + EASTERN_UTC_OFFSET * 3600)

\* C29: every call to get_current_service_date() returns the service date of
\* the time of the call, whatever the times of the calls before it.
C29_CurrentServiceDateIsCurrent ==
    [][(date_call'.n # date_call.n /\ date_call'.op = "get_current_service_date")
        => date_call'.result = service_date(now)]_vars

(***************************************************************************)
(* Properties of the schedule join, of the archives, of detection across    *)
(* evictions and restarts, and of the shards and queues of the workers      *)
(***************************************************************************)
\* the arrival times of the schedule rows of the event's triple, in
\* increasing order
GroupArrivals(e, all_stops) ==
    LET group == SelectSeq(all_stops, LAMBDA row : row.stop_id = e.stop_id)
        times == [i \in 1..Len(group) |-> group[i].arrival_time]
    IN SortSeq(times, <)

\* how many rows of the group are not after the event
NotAfter(e, all_stops) ==
    Cardinality({i \in 1..Len(GroupArrivals(e, all_stops)) :
                    GroupArrivals(e, all_stops)[i] <= e.arrival_time})

C32_FallbackToNewestAccessible ==
    gtfs_call.op = "get_gtfs_archive" =>
        /\ gtfs_call.result.outcome = "raised" => gtfs_call.result.accessible = {}
        /\ (/\ gtfs_call.result.failed \in {"registry", "listing", "archive"}
            /\ gtfs_call.result.accessible # {})
              => /\ gtfs_call.result.outcome = "returned"
                 /\ gtfs_call.result.path \in gtfs_call.result.accessible
                 /\ \A d \in gtfs_call.result.accessible : d <= gtfs_call.result.path

\* the registry could not be downloaded, the newest directory cannot be
\* listed, and the older one was returned
C32_Witness ==
    /\ gtfs_call.op = "get_gtfs_archive"
    /\ gtfs_call.world.registry = "missing"
    /\ gtfs_call.world.listing = "unreachable"
    /\ gtfs_call.world.dirs = {1, 2}
    /\ gtfs_call.world.accessible = {1}
    /\ gtfs_call.result.outcome = "returned"
    /\ gtfs_call.result.path = 1

\* the key of the trip of the update the worker holds
HeldTrip == <<event.route_id, event.trip_id>>

\* C33: for a trip whose updates have non-decreasing stop sequences, a row
\* with event_type ARR is never written for a stop_id when the row written
\* last for that trip is an ARR row for the same stop_id.
C33_NoSecondArrivalAtStop ==
    [][(/\ pc = "process"
        /\ last'.wrote
        /\ HeldTrip \in DOMAIN latest_row
        /\ latest_row[HeldTrip].event_type = "ARR"
        /\ latest_row'[HeldTrip].event_type = "ARR")
          => latest_row'[HeldTrip].stop_id # latest_row[HeldTrip].stop_id]_vars

\* the stored state of the held update's trip is one the cleanup run at this
\* moment would remove: older than MAX_TRIP_AGE, or of a route state whose
\* service date is before the current one
DueForEviction ==
    /\ event.route_id \in DOMAIN route_states
    /\ event.trip_id \in DOMAIN route_states[event.route_id].trips
    /\ \/ route_states[event.route_id].trips[event.trip_id].updated_at < now - MAX_TRIP_AGE
       \/ route_states[event.route_id].service_date < service_date(now)

\* C34: process_event never derives an arrival or a departure from the
\* comparison of an update with a stored state that is older than 5 hours or
\* belongs to an earlier service date.
C34_NoEventFromStaleState ==
    [][(/\ pc = "process"
        /\ last'.seen
        /\ last'.is_dep \/ last'.is_arr) => ~DueForEviction]_vars

\* the state file of the held update's route holds a state for its trip that
\* is neither older than MAX_TRIP_AGE nor of an earlier service date
PersistedFresh ==
    LET state_file == read_trips_state_file(event.route_id) IN
    /\ state_file # <<>>
    /\ event.trip_id \in DOMAIN state_file[1].trip_states
    /\ state_file[1].trip_states[event.trip_id].updated_at >= now - MAX_TRIP_AGE
    /\ state_file[1].service_date >= service_date(now)

PersistedTripState == read_trips_state_file(event.route_id)[1].trip_states[event.trip_id]

\* C35: an update for a trip whose persisted state is neither older than 5
\* hours nor from an earlier service date is compared against that state,
\* also when it is the first update of its route since a restart.
C35_ComparedWithPersistedState ==
    [][(/\ pc = "process"
        /\ pc' = "get"
        /\ event.stop_id # None
        /\ PersistedFresh)
          => /\ last'.seen
             /\ last'.is_dep = is_departure_event(PersistedTripState,
                                   event.current_stop_sequence, event.stop_id)
             /\ last'.is_arr = is_arrival_event(PersistedTripState,
                                   event.current_status)]_vars

\* the seconds from 00:00:00 of day 0, local time, to the instant of ts
LocalSecondsOf(ts) ==
    SecondsOf(ts) + (IF ts.tzinfo = "UTC" THEN EASTERN_UTC_OFFSET * 3600 ELSE 0)

\* C36: for every written row, the service_date column equals the date of
\* the shard directory, and both equal the service date of the event's
\* instant in local time, for timestamps with the local offset and for
\* timestamps in UTC alike.
C36_ColumnEqualsShardDate ==
    date_call.op = "write_event" =>
        /\ date_call.service_date = date_call.shard_date
        /\ date_call.shard_date = DayFromThree(LocalSecondsOf(date_call.ts))

\* the position in subscribers of the queue of the worker that owns a route:
\* main subscribes for the rapid-transit worker first and for the commuter
\* rail worker second
OwnerQueue(route_id) == IF route_id \in ROUTES_RAPID THEN 1 ELSE 2

\* C37: every update the fetcher yields for a route owned by some worker is
\* placed on that worker's queue unless that queue is full, from the first
\* poll on and whatever the order in which the fetcher thread starts and the
\* workers subscribe.
C37_EveryUpdateReachesItsOwner ==
    [][BroadcastStep =>
        /\ OwnerQueue(broadcast'.event.route_id) \in 1..Len(subscribers')
        /\ Len(subscribers[OwnerQueue(broadcast'.event.route_id)]) < QueueMaxsize
              => subscribers'[OwnerQueue(broadcast'.event.route_id)] =
                    Append(subscribers[OwnerQueue(broadcast'.event.route_id)],
                           broadcast'.event)]_vars

\* C38: every written row is enriched from an archive whose service_date
\* equals the row's own service date, also around the 03:00 rollover while
\* the archive has not been swapped.
C38_RowEnrichedFromOwnDate ==
    [][(pc = "process" /\ last'.wrote)
        => current_gtfs_archive' = latest_row'[HeldTrip].service_date]_vars

\* C39: the archive watcher runs for the whole life of the process, also
\* after a check that raised: it never leaves its loop.
C39_WatcherNeverStops ==
    loaders[Watcher].pc # "dead"

\* C40: no shard is written by two different workers: the shard path a worker
\* computed for a row differs from every shard path that a worker other than
\* it computes for an update of one of its routes.
C40_ShardHasOneWriter ==
    dispatch.op = "write" =>
        \A w \in 1..Len(workers) : w \notin dispatch.by =>
            \A route_id \in workers[w], direction_id \in DirectionIds, stop_id \in StopIds,
               ts \in {MinTime, MaxTime} :
                shard_path(route_id, direction_id, stop_id, ts) # dispatch.pathname

\* every worker runs, and the worker of the second bus chunk wrote a row for
\* stop 110, which the routes of the other workers serve as well
C40_Witness ==
    /\ MainDone
    /\ dispatch.op = "write"
    /\ dispatch.by = {4}
    /\ dispatch.pathname = shard_path(dispatch.route_id, 0, "110", MinTime)

====
